---- MODULE Spec2Model ----
(***************************************************************************)
(* A state-machine model of the paper generator of RKS-APP: the            *)
(* PaperGenerator component (blueprint, assembly, editor, regeneration,    *)
(* export), the content-generation client and the Firestore-backed         *)
(* StorageService it talks to.                                             *)
(*                                                                         *)
(* Conventions.                                                            *)
(*  - An optional value (undefined / null in the code) is a sequence of    *)
(*    length 0 or 1: None or Some(x).                                      *)
(*  - Marks are exact thousandths of a mark (0.5 is 500, 0.125 is 125),    *)
(*    so Number(x.toFixed(2)) is a real rounding to a multiple of 10.      *)
(*  - An async handler is one action per await: the values its closure     *)
(*    captured when it was invoked travel in the record of the invocation. *)
(*  - generateId() yields an identifier that is in use nowhere else; the   *)
(*    model takes the least such number.                                   *)
(***************************************************************************)
EXTENDS Integers, Sequences, FiniteSets, TLC

VARIABLES
  users,                  \* Firestore collection 'users': email -> user
  papers,                 \* Firestore collection 'papers': set of paper records
  userEmail,              \* prop userEmail of the mounted PaperGenerator
  userProfile,            \* state userProfile (None until loadInitialData sets it)
  isAdmin,                \* state isAdmin
  isHindiPaper,           \* meta.subject === 'Hindi'
  blueprint,              \* state blueprint
  sections,               \* state sections
  loadingAI,              \* state loadingAI
  generationStatus,       \* state generationStatus ("" when idle)
  asm,                    \* the running handleGenerateFullPaper invocation
  asmLog,                 \* history: how the last click on Generate ended, and
                          \*   with how many sections produced
  asmCount,               \* history: number of invocations accepted so far
  regens,                 \* running handleRegenerateQuestion invocations
  regeneratingQuestionId, \* state regeneratingQuestionId
  regenLog,               \* history: number of regeneration invocations so far,
                          \*   and what the handler did last: the limit alert
                          \*   ("rejected"), the marker set ("accepted"), the
                          \*   question replaced, an empty reply dropped without
                          \*   a message ("silent"), the failure alert ("failed")
  images,                 \* running handleGenerateImage invocations
  generatingImageId,      \* state generatingImageId
  internalExistingPaper,  \* state internalExistingPaper
  downloadedFiles,        \* state downloadedFiles
  saves,                  \* running handleSavePaper invocations
  exports,                \* running handleDownloadPDF invocations
  exportLog,              \* history: number of export and save invocations so
                          \*   far, sessions so far, how the last export request
                          \*   was answered
  props,                  \* props existingPaper, readOnly, autoDownload
  session,                \* "open" | "closed" (onClose called)
  requests,               \* Firestore collection 'requests': payment requests
  other,                  \* a second PaperGenerator of the same user (another
                          \*   tab): its userProfile and its running assembly
  app                     \* App: state user and the login form as submitted

vars == << users, papers, userEmail, userProfile, isAdmin, isHindiPaper,
           blueprint, sections, loadingAI, generationStatus, asm, asmLog,
           asmCount, regens, regeneratingQuestionId, regenLog, images,
           generatingImageId, internalExistingPaper, downloadedFiles,
           saves, exports, exportLog, props, session, requests, other, app >>

storeVars    == << users, papers >>
appVars      == << userEmail, requests, other, app >>
assemblyVars == << blueprint, loadingAI, generationStatus, asm, asmLog, asmCount >>
regenVars    == << regens, regeneratingQuestionId, regenLog >>
imageVars    == << images, generatingImageId >>
exportVars   == << internalExistingPaper, downloadedFiles, saves, exports, exportLog,
                  props, session >>

(***************************************************************************)
(* Bounds of the model.                                                    *)
(***************************************************************************)
MaxBlueprint  == 2   \* blueprint items in the assembly specification
MaxLabelled   == 7   \* blueprint items in the labelling specification
MaxAssemblies == 2   \* accepted handleGenerateFullPaper invocations
MaxCredits    == 1   \* credits a teacher starts with
MaxReply      == 1   \* questions in one reply of the collaborator
MaxQuestions  == 2   \* questions in the editor at any time
MaxEditorRegens == 1       \* regeneration invocations of a run of SpecEditor
MaxRegens     == 3   \* handleRegenerateQuestion invocations in one session
MaxExports    == 2   \* handleDownloadPDF invocations past the gate
MaxSaves      == 1   \* handleSavePaper invocations
MaxSessions   == 2   \* times the generator is mounted
MaxPapers     == 2   \* document ids of the storage specification
MaxCount      == 1   \* editCount and downloadCount of a written document
MaxImages     == 2   \* handleGenerateImage invocations awaiting their image
MaxRequests   == 1   \* payment requests submitted
MaxDecisions  == 2   \* calls of processRequest
PricedPapers  == 2   \* papers a purchased plan adds (the table PRICING is not
                     \*   among the sources; any positive number serves)

None    == << >>
Some(x) == << x >>
IsSome(o) == Len(o) = 1
Get(o)  == o[1]

SeqSum(s, F(_)) ==
  LET RECURSIVE Go(_)
      Go(k) == IF k = 0 THEN 0 ELSE Go(k - 1) + F(s[k])
  IN Go(Len(s))

SeqFilter(s, Keep(_)) ==
  LET RECURSIVE Go(_)
      Go(k) == IF k = 0 THEN << >>
               ELSE IF Keep(s[k]) THEN Append(Go(k - 1), s[k]) ELSE Go(k - 1)
  IN Go(Len(s))

Range(s) == { s[k] : k \in 1..Len(s) }

LeastNotIn(S) == CHOOSE n \in 1..(Cardinality(S) + 1) :
                    n \notin S /\ \A m \in 1..(n - 1) : m \in S

(***************************************************************************)
(* Number(x.toFixed(2)) on thousandths: the nearest multiple of 10, a tie  *)
(* going away from zero (toFixed rounds the magnitude, picking the larger  *)
(* n on a tie).                                                            *)
(***************************************************************************)
ToFixed2(x) == IF x >= 0 THEN ((x + 5) \div 10) * 10
               ELSE 0 - (((0 - x) + 5) \div 10) * 10

SumMarks(qs) == SeqSum(qs, LAMBDA q : q.marks)

(***************************************************************************)
(* Users and plans.                                                        *)
(***************************************************************************)
Plans == { "FREE", "STARTER", "PROFESSIONAL", "PREMIUM" }

\* MOCK_TEACHER_EMAIL and MOCK_ADMIN_EMAIL, and an address nobody registered yet
TeacherEmail == "teacher@school"
AdminEmail   == "admin@school"
NewEmail     == "new@school"
AdminCredits == 9999

\* a user document: role, subscriptionPlan, credits, subscriptionStatus,
\* subscriptionExpiryDate (the days granted from the approval, "none" when the
\* field is absent) and the password
User(role, plan, credits, status, expiry, password) ==
  [ role |-> role, plan |-> plan, credits |-> credits, status |-> status,
    expiry |-> expiry, password |-> password ]

AdminUser == User("ADMIN", "PREMIUM", AdminCredits, "ACTIVE", "none", "admin")

Teacher(plan, credits) == User("TEACHER", plan, credits, "ACTIVE", "none", "password123")

\* StorageService.getUser
getUser(email) == IF email \in DOMAIN users THEN Some(users[email]) ELSE None

\* StorageService.updateUser without originalEmail: setDoc under updatedUser.email
updateUser(store, email, u) ==
  [ e \in (DOMAIN store) \cup { email } |-> IF e = email THEN u ELSE store[e] ]

\* ensureAdminExists: a store without the admin gets the admin and, when she is
\* missing too, the demo teacher (FREE, one credit)
ensureAdminExists(store) ==
  IF AdminEmail \in DOMAIN store THEN store
  ELSE LET withAdmin == updateUser(store, AdminEmail, AdminUser)
       IN IF TeacherEmail \in DOMAIN store THEN withAdmin
          ELSE updateUser(withAdmin, TeacherEmail, Teacher("FREE", 1))

\* createUser: rejected (the store unchanged) when the email is taken; a teacher
\* without credits is given one credit on the FREE plan
createUser(store, email, newUser) ==
  IF email \in DOMAIN store THEN store
  ELSE IF newUser.role = "TEACHER" /\ newUser.credits = 0
  THEN updateUser(store, email, [ newUser EXCEPT !.credits = 1, !.plan = "FREE",
                                                 !.status = "ACTIVE" ])
  ELSE updateUser(store, email, newUser)

\* papers a plan adds on approval: PRICING[plan].papers of constants.ts
PRICING(plan) == [ papers |-> PricedPapers ]

\* the days the approval of a plan grants
DaysOf(plan) ==
  CASE plan = "STARTER"      -> 30
    [] plan = "PROFESSIONAL" -> 60
    [] plan = "PREMIUM"      -> 180
    [] OTHER                 -> 0

\* createPaymentRequest: the request is stored PENDING under a fresh id and the
\* status of the user, when there is one, becomes PENDING
PaymentRequest(id, email, plan, status) ==
  [ id |-> id, userEmail |-> email, plan |-> plan, status |-> status ]

\* the user document processRequest writes for a request on user document `user`
ProcessedUser(user, request, approved) ==
  IF approved
  THEN [ user EXCEPT !.plan = request.plan, !.status = "ACTIVE",
                     !.credits = user.credits + PRICING(request.plan).papers,
                     !.expiry = DaysOf(request.plan) ]
  ELSE [ user EXCEPT !.status = "REJECTED" ]

(***************************************************************************)
(* The content-generation client, generateQuestionsWithAI.  A reply of the *)
(* collaborator is a sequence of raw records; the client maps each to a    *)
(* Question of the requested type, marks and topic under a fresh id.  The  *)
(* number of records is the collaborator's choice, not the client's.       *)
(***************************************************************************)
RawQuestion(text, answer) ==
  [ text |-> text, answer |-> answer, options |-> "opts", matchPairs |-> "pairs" ]

Replies(texts, answers) ==
  UNION { [ 1..n -> { RawQuestion(t, a) : t \in texts, a \in answers } ] : n \in 0..MaxReply }

\* ids: the fresh identifiers generateId() hands out, one per record
MapReply(reply, questionType, marks, topic, ids) ==
  [ k \in 1..Len(reply) |->
      [ id             |-> ids[k],
        type           |-> questionType,
        text           |-> reply[k].text,
        marks          |-> marks,
        options        |-> reply[k].options,
        matchPairs     |-> reply[k].matchPairs,
        answer         |-> reply[k].answer,
        topic          |-> topic,
        regenerateCount |-> 0,        \* absent, read as (regenerateCount || 0)
        imageUrl       |-> "none",    \* absent
        imageWidth     |-> 0 ] ]      \* absent

(***************************************************************************)
(* Identifiers in use, per kind.                                           *)
(***************************************************************************)
QuestionsOf(secs) == UNION { Range(s.questions) : s \in Range(secs) }

SectionIdsInUse ==
  { s.id : s \in Range(sections) } \cup { s.id : s \in Range(asm.generated) }
    \cup { r.sectionId : r \in regens } \cup { r.sectionId : r \in images }

QuestionIdsInUse ==
  { q.id : q \in QuestionsOf(sections) } \cup { q.id : q \in QuestionsOf(asm.generated) }
    \cup { r.question.id : r \in regens } \cup { r.qId : r \in images }

RECURSIVE FreshIds(_, _)
FreshIds(used, n) ==
  IF n = 0 THEN << >>
  ELSE LET id == LeastNotIn(used) IN << id >> \o FreshIds(used \cup { id }, n - 1)

(***************************************************************************)
(* Blueprint builder.                                                      *)
(***************************************************************************)
\* What is typed in a number field: None for an empty or non-numeric text (parseInt
\* and parseFloat give NaN), Some(n) for a number.

\* onChange of the Count field: parseInt(e.target.value) || 0
ParseCount(raw) == IF IsSome(raw) THEN Get(raw) ELSE 0

\* onChange of the Marks field: parseFloat(e.target.value) || 0
ParseMarks(raw) == IF IsSome(raw) THEN Get(raw) ELSE 0

BlueprintItem(id, topic, type, count, marks) ==
  [ id |-> id, topic |-> topic, type |-> type, count |-> count, marks |-> marks ]

\* The Count and Marks fields are typed, then Add is clicked.
handleAddToBlueprint(rawCounts, rawMarks, topics, types, maxLen) ==
  /\ session = "open" /\ ~loadingAI
  /\ Len(blueprint) < maxLen
  /\ \E rc \in rawCounts, rm \in rawMarks, t \in topics, ty \in types :
       blueprint' = Append(blueprint,
                      BlueprintItem(LeastNotIn({ b.id : b \in Range(blueprint) }),
                                    t, ty, ParseCount(rc), ParseMarks(rm)))
  /\ UNCHANGED << storeVars, appVars, userProfile, isAdmin, isHindiPaper, sections,
                  loadingAI, generationStatus, asm, asmLog, asmCount,
                  regenVars, imageVars, exportVars >>

handleRemoveBlueprintItem ==
  /\ session = "open" /\ ~loadingAI
  /\ \E b \in Range(blueprint) :
       blueprint' = SeqFilter(blueprint, LAMBDA i : i.id # b.id)
  /\ UNCHANGED << storeVars, appVars, userProfile, isAdmin, isHindiPaper, sections,
                  loadingAI, generationStatus, asm, asmLog, asmCount,
                  regenVars, imageVars, exportVars >>

(***************************************************************************)
(* Section assembler, handleGenerateFullPaper.                             *)
(***************************************************************************)
\* String.fromCharCode(c) for the codes 65..96
CharTable == << "A", "B", "C", "D", "E", "F", "G", "H", "I", "J", "K", "L", "M",
                "N", "O", "P", "Q", "R", "S", "T", "U", "V", "W", "X", "Y", "Z",
                "[", "BACKSLASH", "]", "^", "_", "BACKTICK" >>

fromCharCode(c) == CharTable[c - 64]

\* The six native labels, transliterated: a, ba, sa, da, i, pha
HindiLetters == << "hi-a", "hi-ba", "hi-sa", "hi-da", "hi-i", "hi-pha" >>

\* Mutant: the fallback restarts the Latin letters at A once the table is exhausted.
getHindiSectionLabel_Restart(idx) ==
  IF idx + 1 \in DOMAIN HindiLetters THEN HindiLetters[idx + 1]
  ELSE fromCharCode(65 + idx - Len(HindiLetters))

\* idx is 0-based, as in the code: letters[idx] || String.fromCharCode(65 + idx)
getHindiSectionLabel(idx) ==
  IF idx + 1 \in DOMAIN HindiLetters THEN HindiLetters[idx + 1] ELSE fromCharCode(65 + idx)

\* the title `<prefix> <label>` as the pair of its parts ("khand" is the Hindi prefix)
SectionTitle(hindi, idx) ==
  IF hindi THEN << "khand", getHindiSectionLabel(idx) >>
  ELSE << "SECTION", fromCharCode(65 + idx) >>

MakeSection(id, title, generatedQs) ==
  [ id |-> id, title |-> title, questions |-> generatedQs,
    totalMarks |-> ToFixed2(SumMarks(generatedQs)) ]

\* The invocation: its position (pc, i), its local generatedSections, what its
\* closure captured (blueprint, userProfile, isAdmin, isHindiPaper) and, as
\* history, the calls it dispatched and what it started from.
IdleAsm == [ pc |-> "idle", i |-> 0, generated |-> << >>, bp |-> << >>,
             profile |-> None, admin |-> FALSE, hindi |-> FALSE,
             calls |-> << >>, sectionsBefore |-> << >>, storedBefore |-> None ]

CallArgs(item) == [ topic |-> item.topic, type |-> item.type,
                    count |-> item.count, marks |-> item.marks ]

\* the guards without the credit guard
AssemblyRejected_BlueprintOnly ==
  Len(blueprint) = 0

\* the two guards of the handler
AssemblyRejected ==
  \/ Len(blueprint) = 0
  \/ ~isAdmin /\ IsSome(userProfile) /\ Get(userProfile).credits <= 0

\* A click on Generate that a guard turns away: an alert, no state change.
handleGenerateFullPaper_Reject ==
  /\ session = "open" /\ ~loadingAI
  /\ AssemblyRejected
  /\ asmLog' = [ result |-> "rejected", produced |-> 0 ]
  /\ UNCHANGED << storeVars, appVars, userProfile, isAdmin, isHindiPaper, blueprint,
                  sections, loadingAI, generationStatus, asm, asmCount,
                  regenVars, imageVars, exportVars >>

\* The click passes the guards: loading state set, getStyleContext awaited.
handleGenerateFullPaper_Start ==
  /\ session = "open" /\ ~loadingAI
  /\ ~AssemblyRejected
  /\ asmCount < MaxAssemblies
  /\ loadingAI' = TRUE
  /\ generationStatus' = "Initializing..."
  /\ asm' = [ pc |-> "style", i |-> 0, generated |-> << >>, bp |-> blueprint,
              profile |-> userProfile, admin |-> isAdmin, hindi |-> isHindiPaper,
              calls |-> << >>, sectionsBefore |-> sections,
              storedBefore |-> getUser(userEmail) ]
  /\ asmLog' = [ result |-> "running", produced |-> 0 ]
  /\ asmCount' = asmCount + 1
  /\ UNCHANGED << storeVars, appVars, userProfile, isAdmin, isHindiPaper, blueprint,
                  sections, regenVars, imageVars, exportVars >>

\* Mutant: the sections produced before the failure are installed.
AssemblyAbort_PartialCommit ==
  /\ loadingAI' = FALSE
  /\ generationStatus' = ""
  /\ asm' = IdleAsm
  /\ asmLog' = [ result |-> "failed", produced |-> Len(asm.generated) ]
  /\ sections' = asm.generated
  /\ UNCHANGED << storeVars, userProfile >>

\* catch and finally: the alert, then loading state cleared; nothing else is touched
AssemblyAbort ==
  /\ loadingAI' = FALSE
  /\ generationStatus' = ""
  /\ asm' = IdleAsm
  /\ asmLog' = [ result |-> "failed", produced |-> Len(asm.generated) ]
  /\ UNCHANGED << storeVars, userProfile, sections >>

\* setSections(generatedSections) ... finally
AssemblyCommit(generatedSections) ==
  /\ sections' = generatedSections
  /\ loadingAI' = FALSE
  /\ generationStatus' = ""
  /\ asm' = IdleAsm
  /\ asmLog' = [ result |-> "ok", produced |-> Len(generatedSections) ]

\* a loop that does not await: the call for the next item leaves with that of item i
Dispatched_Ahead(a, i) ==
  [ a EXCEPT !.i = i,
             !.calls = IF i < Len(a.bp)
                       THEN @ \o << CallArgs(a.bp[i]), CallArgs(a.bp[i + 1]) >>
                       ELSE Append(@, CallArgs(a.bp[i])) ]

\* the loop body up to its await: the status line and the call for item i (1-based)
Dispatched(a, i) == [ a EXCEPT !.i = i, !.calls = Append(@, CallArgs(a.bp[i])) ]

\* getStyleContext resolved: the loop starts with item 1
handleGenerateFullPaper_Style ==
  /\ asm.pc = "style"
  /\ asm' = Dispatched([ asm EXCEPT !.pc = "gen" ], 1)
  /\ generationStatus' = "Generating Section"
  /\ UNCHANGED << storeVars, appVars, userProfile, isAdmin, isHindiPaper, blueprint,
                  sections, loadingAI, asmLog, asmCount, regenVars, imageVars,
                  exportVars >>

\* getStyleContext rejected
handleGenerateFullPaper_StyleFail ==
  /\ asm.pc = "style"
  /\ AssemblyAbort
  /\ UNCHANGED << appVars, isAdmin, isHindiPaper, blueprint, asmCount,
                  regenVars, imageVars, exportVars >>

\* generateQuestionsWithAI resolved for item asm.i with `reply`
handleGenerateFullPaper_Item(replies) ==
  /\ asm.pc = "gen"
  /\ \E reply \in replies :
       LET item   == asm.bp[asm.i]
           qids   == FreshIds(QuestionIdsInUse, Len(reply))
           qs     == MapReply(reply, item.type, item.marks, item.topic, qids)
           sec    == MakeSection(LeastNotIn(SectionIdsInUse),
                                 SectionTitle(asm.hindi, asm.i - 1), qs)
           gen    == Append(asm.generated, sec)
       IN IF asm.i < Len(asm.bp)
          THEN /\ asm' = Dispatched([ asm EXCEPT !.generated = gen ], asm.i + 1)
               /\ generationStatus' = "Generating Section"
               /\ UNCHANGED << storeVars, userProfile, sections, loadingAI, asmLog >>
          ELSE IF ~asm.admin /\ IsSome(asm.profile)
          THEN \* updateUser awaited
               /\ asm' = [ asm EXCEPT !.pc = "deduct", !.generated = gen ]
               /\ UNCHANGED << storeVars, userProfile, sections, loadingAI,
                               generationStatus, asmLog >>
          ELSE /\ AssemblyCommit(gen)
               /\ UNCHANGED << storeVars, userProfile >>
  /\ UNCHANGED << appVars, isAdmin, isHindiPaper, blueprint, asmCount,
                  regenVars, imageVars, exportVars >>

\* generateQuestionsWithAI rejected for item asm.i
handleGenerateFullPaper_ItemFail ==
  /\ asm.pc = "gen"
  /\ AssemblyAbort
  /\ UNCHANGED << appVars, isAdmin, isHindiPaper, blueprint, asmCount,
                  regenVars, imageVars, exportVars >>

\* the user record the deduction writes: { ...userProfile, credits: credits - 1 }
DeductedUser(profile) == [ profile EXCEPT !.credits = profile.credits - 1 ]

\* updateUser resolved: the profile in state follows, then the sections
handleGenerateFullPaper_Deduct ==
  /\ asm.pc = "deduct"
  /\ LET updatedUser == DeductedUser(Get(asm.profile))
     IN /\ users' = updateUser(users, userEmail, updatedUser)
        /\ userProfile' = Some(updatedUser)
  /\ AssemblyCommit(asm.generated)
  /\ UNCHANGED << papers, appVars, isAdmin, isHindiPaper, blueprint, asmCount,
                  regenVars, imageVars, exportVars >>

\* updateUser rejected: nothing written
handleGenerateFullPaper_DeductFail ==
  /\ asm.pc = "deduct"
  /\ AssemblyAbort
  /\ UNCHANGED << appVars, isAdmin, isHindiPaper, blueprint, asmCount,
                  regenVars, imageVars, exportVars >>

(***************************************************************************)
(* loadInitialData: getUser resolved.                                      *)
(***************************************************************************)
loadInitialData ==
  /\ session = "open"
  /\ userProfile = None
  /\ IsSome(getUser(userEmail))
  /\ userProfile' = getUser(userEmail)
  /\ isAdmin' = (Get(getUser(userEmail)).role = "ADMIN")
  /\ UNCHANGED << storeVars, appVars, isHindiPaper, sections, assemblyVars,
                  regenVars, imageVars, exportVars >>

\* the Subject select of step 1
setSubject ==
  /\ session = "open" /\ ~loadingAI
  /\ isHindiPaper' = ~isHindiPaper
  /\ UNCHANGED << storeVars, appVars, userProfile, isAdmin, sections, assemblyVars,
                  regenVars, imageVars, exportVars >>

(***************************************************************************)
(* Document editor.  Every handler is one functional setSections update.   *)
(***************************************************************************)
\* readOnly = (!(!propExistingPaper) && propReadOnly && !isAdmin)
readOnly == IsSome(props.existingPaper) /\ props.readOnly /\ ~isAdmin

Editable == session = "open" /\ ~loadingAI /\ ~readOnly

MapSection(secs, sectionId, F(_)) ==
  [ k \in 1..Len(secs) |-> IF secs[k].id = sectionId THEN F(secs[k]) ELSE secs[k] ]

MapQuestion(qs, qId, F(_)) ==
  [ k \in 1..Len(qs) |-> IF qs[k].id = qId THEN F(qs[k]) ELSE qs[k] ]

\* window.confirm answered yes
handleDeleteSection ==
  /\ Editable
  /\ \E sec \in Range(sections) :
       sections' = SeqFilter(sections, LAMBDA s : s.id # sec.id)
  /\ UNCHANGED << storeVars, appVars, userProfile, isAdmin, isHindiPaper,
                  assemblyVars, regenVars, imageVars, exportVars >>

\* the default scaffold: short answer, 2 marks, topic meta.subject
NewQuestion(id) ==
  [ id |-> id, type |-> "SA", text |-> "New Question (Edit me)", marks |-> 2000,
    options |-> "none", matchPairs |-> "none", answer |-> "none", topic |-> "subject",
    regenerateCount |-> 0, imageUrl |-> "none", imageWidth |-> 0 ]

AddedTo(s, newQ) ==
  [ s EXCEPT !.questions = Append(@, newQ),
             !.totalMarks = ToFixed2(s.totalMarks + newQ.marks) ]

handleAddQuestionToSection ==
  /\ Editable
  /\ Cardinality(QuestionsOf(sections)) < MaxQuestions
  /\ \E sec \in Range(sections) :
       sections' = MapSection(sections, sec.id,
                     LAMBDA s : AddedTo(s, NewQuestion(LeastNotIn(QuestionIdsInUse))))
  /\ UNCHANGED << storeVars, appVars, userProfile, isAdmin, isHindiPaper,
                  assemblyVars, regenVars, imageVars, exportVars >>

handleUpdateSectionTitle(titles) ==
  /\ Editable
  /\ \E sec \in Range(sections), newTitle \in titles :
       sections' = MapSection(sections, sec.id, LAMBDA s : [ s EXCEPT !.title = newTitle ])
  /\ UNCHANGED << storeVars, appVars, userProfile, isAdmin, isHindiPaper,
                  assemblyVars, regenVars, imageVars, exportVars >>

\* an update of the prompt text that also discards the stored answer
SetField_TextDropsAnswer(q, field, value) ==
  CASE field = "text"       -> [ q EXCEPT !.text = value, !.answer = "none" ]
    [] field = "answer"     -> [ q EXCEPT !.answer = value ]
    [] field = "marks"      -> [ q EXCEPT !.marks = value ]
    [] field = "options"    -> [ q EXCEPT !.options = value ]
    [] field = "matchPairs" -> [ q EXCEPT !.matchPairs = value ]
    [] field = "imageUrl"   -> [ q EXCEPT !.imageUrl = value ]
    [] field = "imageWidth" -> [ q EXCEPT !.imageWidth = value ]

\* { ...q, [field]: value }
SetField(q, field, value) ==
  CASE field = "text"       -> [ q EXCEPT !.text = value ]
    [] field = "answer"     -> [ q EXCEPT !.answer = value ]
    [] field = "marks"      -> [ q EXCEPT !.marks = value ]
    [] field = "options"    -> [ q EXCEPT !.options = value ]
    [] field = "matchPairs" -> [ q EXCEPT !.matchPairs = value ]
    [] field = "imageUrl"   -> [ q EXCEPT !.imageUrl = value ]
    [] field = "imageWidth" -> [ q EXCEPT !.imageWidth = value ]

UpdatedSection(s, qId, field, value) ==
  LET updatedQs == MapQuestion(s.questions, qId, LAMBDA q : SetField(q, field, value))
  IN [ s EXCEPT !.questions = updatedQs, !.totalMarks = ToFixed2(SumMarks(updatedQs)) ]

\* edits: the << field, value >> pairs the specification lets the user enter
handleUpdateQuestion(edits) ==
  /\ Editable
  /\ \E sec \in Range(sections) : \E q \in Range(sec.questions), e \in edits :
       /\ SetField(q, e[1], e[2]) # q
       /\ sections' = MapSection(sections, sec.id,
                         LAMBDA s : UpdatedSection(s, q.id, e[1], e[2]))
  /\ UNCHANGED << storeVars, appVars, userProfile, isAdmin, isHindiPaper,
                  assemblyVars, regenVars, imageVars, exportVars >>

WithoutQuestion(s, qId) ==
  LET newQuestions == SeqFilter(s.questions, LAMBDA q : q.id # qId)
  IN [ s EXCEPT !.questions = newQuestions,
                !.totalMarks = ToFixed2(SumMarks(newQuestions)) ]

handleDeleteQuestion ==
  /\ Editable
  /\ \E sec \in Range(sections) : \E q \in Range(sec.questions) :
       sections' = MapSection(sections, sec.id, LAMBDA s : WithoutQuestion(s, q.id))
  /\ UNCHANGED << storeVars, appVars, userProfile, isAdmin, isHindiPaper,
                  assemblyVars, regenVars, imageVars, exportVars >>

\* reader.onloadend of an uploaded file
handleUploadImage ==
  /\ Editable
  /\ \E sec \in Range(sections) : \E q \in Range(sec.questions) :
       /\ q.imageUrl # "upload"
       /\ sections' = MapSection(sections, sec.id, LAMBDA s :
            [ s EXCEPT !.questions = MapQuestion(@, q.id, LAMBDA x :
                [ x EXCEPT !.imageUrl = "upload", !.imageWidth = 50 ]) ])
  /\ UNCHANGED << storeVars, appVars, userProfile, isAdmin, isHindiPaper,
                  assemblyVars, regenVars, imageVars, exportVars >>

(***************************************************************************)
(* The document total of the header (MAX. MARKS), computed at each render.  *)
(***************************************************************************)
\* a total summed from the questions' marks
calculateTotalMarks_FromQuestions ==
  ToFixed2(SeqSum(sections, LAMBDA s : SumMarks(s.questions)))

\* calculateTotalMarks: Number(sections.reduce((acc, s) => acc + s.totalMarks, 0).toFixed(2))
calculateTotalMarks ==
  ToFixed2(SeqSum(sections, LAMBDA s : s.totalMarks))

(***************************************************************************)
(* The two projections of the document, both rendered from `sections`.     *)
(* A question's number is its position in the document.                    *)
(***************************************************************************)
\* questions of the sections before section i
QuestionsBefore(secs, i) == SeqSum(SubSeq(secs, 1, i - 1), LAMBDA s : Len(s.questions))

\* renderPrintContent: per section the title, per question the number, the text,
\* the options, the match table of a MATCH question, the image and the marks
renderPrintContent(secs) ==
  [ i \in 1..Len(secs) |->
      [ title |-> secs[i].title,
        questions |->
          [ j \in 1..Len(secs[i].questions) |->
              LET q == secs[i].questions[j]
              IN [ number     |-> QuestionsBefore(secs, i) + j,
                   text       |-> q.text,
                   options    |-> q.options,
                   matchPairs |-> IF q.type = "MATCH" THEN q.matchPairs ELSE "none",
                   imageUrl   |-> q.imageUrl,
                   imageWidth |-> IF q.imageUrl = "none" THEN 0 ELSE q.imageWidth,
                   marks      |-> q.marks ] ] ] ]

\* renderAnswerKeyContent: per section the title, per question the number, the
\* answer (q.answer || "Answer not available") and the marks
renderAnswerKeyContent(secs) ==
  [ i \in 1..Len(secs) |->
      [ title |-> secs[i].title,
        questions |->
          [ j \in 1..Len(secs[i].questions) |->
              LET q == secs[i].questions[j]
              IN [ number |-> QuestionsBefore(secs, i) + j,
                   answer |-> IF q.answer = "none" THEN "Answer not available"
                              ELSE q.answer,
                   marks  |-> q.marks ] ] ] ]

(***************************************************************************)
(* Regeneration governor, handleRegenerateQuestion.                        *)
(***************************************************************************)
\* a chain that grants a STARTER caller the PROFESSIONAL allowance
maxRegenerations_StarterTwo(profile, admin) ==
  LET plan == IF IsSome(profile) THEN Get(profile).plan ELSE "undefined"
  IN IF plan = "STARTER" THEN 2
     ELSE IF plan = "PROFESSIONAL" THEN 2
     ELSE IF plan = "PREMIUM" \/ admin THEN 3
     ELSE IF plan = "FREE" THEN 1
     ELSE 0

\* the plan chain of the handler, on the state it reads
maxRegenerations(profile, admin) ==
  LET plan == IF IsSome(profile) THEN Get(profile).plan ELSE "undefined"
  IN IF plan = "STARTER" THEN 1
     ELSE IF plan = "PROFESSIONAL" THEN 2
     ELSE IF plan = "PREMIUM" \/ admin THEN 3
     ELSE IF plan = "FREE" THEN 1
     ELSE 0

\* the Regenerate button of question q is enabled:
\* !(regeneratingQuestionId === q.id || isRegenLimitReached)
RegenerateEnabled(q) ==
  /\ regeneratingQuestionId # Some(q.id)
  /\ ~(q.regenerateCount >= maxRegenerations(userProfile, isAdmin))

\* the guard of the handler: currentRegenCount >= maxRegenerations
RegenerationRejected(question) ==
  question.regenerateCount >= maxRegenerations(userProfile, isAdmin)

\* a rejection that counts the attempt on the question
handleRegenerateQuestion_Reject_Counted ==
  /\ Editable
  /\ \E sec \in Range(sections) : \E question \in Range(sec.questions) :
       /\ RegenerationRejected(question)
       /\ sections' = MapSection(sections, sec.id, LAMBDA s :
            [ s EXCEPT !.questions = MapQuestion(@, question.id, LAMBDA q :
                [ q EXCEPT !.regenerateCount = @ + 1 ]) ])
  /\ regenLog' = [ regenLog EXCEPT !.last = "rejected" ]
  /\ UNCHANGED << storeVars, appVars, userProfile, isAdmin, isHindiPaper,
                  assemblyVars, regens, regeneratingQuestionId, imageVars, exportVars >>

\* The handler is invoked at the limit: an alert, nothing else.
handleRegenerateQuestion_Reject ==
  /\ Editable
  /\ \E sec \in Range(sections) : \E question \in Range(sec.questions) :
       RegenerationRejected(question)
  /\ regenLog' = [ regenLog EXCEPT !.last = "rejected" ]
  /\ UNCHANGED << storeVars, appVars, userProfile, isAdmin, isHindiPaper, sections,
                  assemblyVars, regens, regeneratingQuestionId, imageVars, exportVars >>

\* what an invocation reads of the question object it was called with
Captured(question) ==
  [ id |-> question.id, type |-> question.type, marks |-> question.marks,
    topic |-> question.topic, regenerateCount |-> question.regenerateCount ]

\* The click passes the guard: marker set, getStyleContext awaited.  The invocation
\* keeps the section id and the question object it was called with.
handleRegenerateQuestion_Start(maxInvocations) ==
  /\ Editable
  /\ regenLog.count < maxInvocations
  /\ \E sec \in Range(sections) : \E question \in Range(sec.questions) :
       /\ RegenerateEnabled(question)
       /\ ~RegenerationRejected(question)
       /\ regeneratingQuestionId' = Some(question.id)
       /\ regens' = regens \cup { [ rid |-> LeastNotIn({ r.rid : r \in regens }),
                                    pc |-> "style", sectionId |-> sec.id,
                                    question |-> Captured(question) ] }
  /\ regenLog' = [ count |-> regenLog.count + 1, last |-> "accepted" ]
  /\ UNCHANGED << storeVars, appVars, userProfile, isAdmin, isHindiPaper, sections,
                  assemblyVars, imageVars, exportVars >>

\* getStyleContext resolved: the one generation call is dispatched
handleRegenerateQuestion_Style ==
  /\ \E r \in regens :
       /\ r.pc = "style"
       /\ regens' = (regens \ { r }) \cup { [ r EXCEPT !.pc = "gen" ] }
  /\ UNCHANGED << storeVars, appVars, userProfile, isAdmin, isHindiPaper, sections,
                  assemblyVars, regeneratingQuestionId, regenLog, imageVars, exportVars >>

\* { ...newQuestions[0], id: question.id, regenerateCount: currentRegenCount + 1 }
RegeneratedQuestion(question, reply) ==
  [ MapReply(reply, question.type, question.marks, question.topic,
             FreshIds(QuestionIdsInUse, Len(reply)))[1]
      EXCEPT !.id = question.id, !.regenerateCount = question.regenerateCount + 1 ]

\* a replacement that adds the new question's marks to the section total
RegeneratedSection_AddsMarks(s, question, newQ) ==
  [ s EXCEPT !.questions = MapQuestion(@, question.id, LAMBDA q : newQ),
             !.totalMarks = @ + newQ.marks ]

\* what the functional setSections of the handler does to the section
RegeneratedSection(s, question, newQ) ==
  [ s EXCEPT !.questions = MapQuestion(@, question.id, LAMBDA q : newQ) ]

\* generateQuestionsWithAI resolved with `reply`: the question is replaced when
\* newQuestions.length > 0, and nothing is done or said otherwise
handleRegenerateQuestion_Reply(replies) ==
  /\ \E r \in regens, reply \in replies :
       /\ r.pc = "gen"
       /\ regens' = regens \ { r }
       /\ IF Len(reply) > 0
          THEN /\ sections' = MapSection(sections, r.sectionId, LAMBDA s :
                     RegeneratedSection(s, r.question, RegeneratedQuestion(r.question, reply)))
               /\ regenLog' = [ regenLog EXCEPT !.last = "replaced" ]
          ELSE /\ sections' = sections
               /\ regenLog' = [ regenLog EXCEPT !.last = "silent" ]
  /\ regeneratingQuestionId' = None
  /\ UNCHANGED << storeVars, appVars, userProfile, isAdmin, isHindiPaper,
                  assemblyVars, imageVars, exportVars >>

\* a catch without the finally block: the alert, the marker left as it is
handleRegenerateQuestion_Fail_NoFinally ==
  /\ \E r \in regens : regens' = regens \ { r }
  /\ regenLog' = [ regenLog EXCEPT !.last = "failed" ]
  /\ UNCHANGED << storeVars, appVars, userProfile, isAdmin, isHindiPaper, sections,
                  assemblyVars, regeneratingQuestionId, imageVars, exportVars >>

\* getStyleContext or generateQuestionsWithAI rejected: the alert, marker cleared
handleRegenerateQuestion_Fail ==
  /\ \E r \in regens : regens' = regens \ { r }
  /\ regeneratingQuestionId' = None
  /\ regenLog' = [ regenLog EXCEPT !.last = "failed" ]
  /\ UNCHANGED << storeVars, appVars, userProfile, isAdmin, isHindiPaper, sections,
                  assemblyVars, imageVars, exportVars >>

(***************************************************************************)
(* AI diagrams: generateImageForQuestion and handleGenerateImage.          *)
(***************************************************************************)
PlaceholderNotGenerated == "https://placehold.co/400x300?text=Diagram+Not+Generated"
PlaceholderImageError   == "https://placehold.co/400x300?text=Image+Error"

\* what the image model answers: a part with inlineData, text only, or an error
ImageReplies == { "image", "text", "error" }

Resolved(url) == [ settled |-> "resolved", url |-> url ]
Rejected      == [ settled |-> "rejected", url |-> "none" ]
Pending       == [ settled |-> "pending",  url |-> "none" ]

\* generateImageForQuestion: getAI() runs before the try block and throws when the
\* API key is missing; inside the try the call resolves to the data URL or to a
\* placeholder
generateImageForQuestion(apiKey, reply) ==
  IF ~apiKey THEN Rejected
  ELSE IF reply = "error" THEN Resolved(PlaceholderImageError)
  ELSE IF reply = "image" THEN Resolved("data:image")
  ELSE Resolved(PlaceholderNotGenerated)

\* the click on AI Diagram: the marker is set and generateImageForQuestion is called
handleGenerateImage_Start ==
  /\ Editable
  /\ Cardinality(images) < MaxImages
  /\ \E sec \in Range(sections) : \E question \in Range(sec.questions) :
       /\ generatingImageId # Some(question.id)
       /\ generatingImageId' = Some(question.id)
       /\ images' = images \cup { [ iid |-> LeastNotIn({ r.iid : r \in images }),
                                    sectionId |-> sec.id, qId |-> question.id,
                                    result |-> Pending ] }
  /\ UNCHANGED << storeVars, appVars, userProfile, isAdmin, isHindiPaper, sections,
                  assemblyVars, regenVars, exportVars >>

\* the promise of generateImageForQuestion settles
generateImageForQuestion_Settle ==
  /\ \E r \in images, apiKey \in BOOLEAN, reply \in ImageReplies :
       /\ r.result = Pending
       /\ images' = (images \ { r })
                      \cup { [ r EXCEPT !.result = generateImageForQuestion(apiKey, reply) ] }
  /\ UNCHANGED << storeVars, appVars, userProfile, isAdmin, isHindiPaper, sections,
                  assemblyVars, regenVars, generatingImageId, exportVars >>

\* the image put on every question of the document
WithImage_EveryQuestion(secs, sectionId, qId, imgUrl) ==
  [ i \in 1..Len(secs) |->
      [ secs[i] EXCEPT !.questions = [ j \in 1..Len(@) |->
          [ @[j] EXCEPT !.imageUrl = imgUrl, !.imageWidth = 50 ] ] ] ]

\* { ...q, imageUrl: imgUrl, imageWidth: 50 } on the question of that id
WithImage(secs, sectionId, qId, imgUrl) ==
  MapSection(secs, sectionId, LAMBDA s :
    [ s EXCEPT !.questions = MapQuestion(@, qId, LAMBDA q :
        [ q EXCEPT !.imageUrl = imgUrl, !.imageWidth = 50 ]) ])

\* the await returned a URL: functional setSections, then the finally block
handleGenerateImage_Then ==
  /\ \E r \in images :
       /\ r.result.settled = "resolved"
       /\ images' = images \ { r }
       /\ sections' = WithImage(sections, r.sectionId, r.qId, r.result.url)
  /\ generatingImageId' = None
  /\ UNCHANGED << storeVars, appVars, userProfile, isAdmin, isHindiPaper,
                  assemblyVars, regenVars, exportVars >>

\* the await threw: the alert, then the finally block
handleGenerateImage_Catch ==
  /\ \E r \in images :
       /\ r.result.settled = "rejected"
       /\ images' = images \ { r }
  /\ generatingImageId' = None
  /\ UNCHANGED << storeVars, appVars, userProfile, isAdmin, isHindiPaper, sections,
                  assemblyVars, regenVars, exportVars >>

(***************************************************************************)
(* StorageService: the papers collection.                                  *)
(***************************************************************************)
Paper(id, secs, createdBy, visibleToTeacher, visibleToAdmin, editCount, downloadCount) ==
  [ id |-> id, sections |-> secs, createdBy |-> createdBy,
    visibleToTeacher |-> visibleToTeacher, visibleToAdmin |-> visibleToAdmin,
    editCount |-> editCount, downloadCount |-> downloadCount ]

\* savePaper: updateDoc({ ...paper }) on an existing document, else setDoc with the
\* flags and both counters reset
savePaper(store, paper) ==
  IF \E p \in store : p.id = paper.id
  THEN { p \in store : p.id # paper.id } \cup { paper }
  ELSE store \cup { [ paper EXCEPT !.visibleToTeacher = TRUE, !.visibleToAdmin = TRUE,
                                   !.editCount = 0, !.downloadCount = 0 ] }

getPapersByUser(email) == { p \in papers : p.createdBy = email /\ p.visibleToTeacher }

getAllPapers == { p \in papers : p.visibleToAdmin }

\* a soft hide that clears both flags
deletePaper_HideFromAll(store, id, target) ==
  IF target = "PERMANENT" THEN { p \in store : p.id # id }
  ELSE { IF p.id = id
         THEN [ p EXCEPT !.visibleToTeacher = FALSE, !.visibleToAdmin = FALSE ]
         ELSE p : p \in store }

\* deletePaper: deleteDoc, or updateDoc of the one flag of the target audience
\* (updateDoc of a missing document rejects and writes nothing)
deletePaper(store, id, target) ==
  IF target = "PERMANENT" THEN { p \in store : p.id # id }
  ELSE { IF p.id = id
         THEN IF target = "TEACHER" THEN [ p EXCEPT !.visibleToTeacher = FALSE ]
                                    ELSE [ p EXCEPT !.visibleToAdmin = FALSE ]
         ELSE p : p \in store }

\* a call of savePaper with document d
StorageService_savePaper(docs) ==
  /\ \E d \in docs : papers' = savePaper(papers, d)
  /\ UNCHANGED << users, appVars, userProfile, isAdmin, isHindiPaper, sections,
                  assemblyVars, regenVars, imageVars, exportVars >>

\* a call of deletePaper
StorageService_deletePaper ==
  /\ \E p \in papers, target \in { "TEACHER", "ADMIN", "PERMANENT" } :
       papers' = deletePaper(papers, p.id, target)
  /\ UNCHANGED << users, appVars, userProfile, isAdmin, isHindiPaper, sections,
                  assemblyVars, regenVars, imageVars, exportVars >>

PaperIdsInUse ==
  { p.id : p \in papers } \cup { p.id : p \in Range(internalExistingPaper) }
    \cup { s.newPaper.id : s \in saves }
    \cup UNION { { p.id : p \in Range(e.newPaper) } : e \in exports }

(***************************************************************************)
(* Explicit save, handleSavePaper.                                         *)
(***************************************************************************)
\* the QuestionPaper the handler builds from the state it was invoked on
SavedPaper ==
  IF IsSome(internalExistingPaper)
  THEN LET old == Get(internalExistingPaper)
       IN Paper(old.id, sections, old.createdBy, old.visibleToTeacher,
                old.visibleToAdmin, old.editCount + 1, old.downloadCount)
  ELSE Paper(LeastNotIn(PaperIdsInUse), sections, userEmail, TRUE, TRUE, 0, 0)

handleSavePaper_Start ==
  /\ session = "open" /\ ~readOnly
  /\ IsSome(userProfile)
  /\ exportLog.saves < MaxSaves
  /\ saves' = saves \cup { [ pc |-> "write", newPaper |-> SavedPaper ] }
  /\ exportLog' = [ exportLog EXCEPT !.saves = @ + 1 ]
  /\ UNCHANGED << storeVars, appVars, userProfile, isAdmin, isHindiPaper, sections,
                  assemblyVars, regenVars, imageVars, internalExistingPaper,
                  downloadedFiles, exports, props, session >>

\* StorageService.savePaper writes the document
handleSavePaper_Write ==
  /\ \E s \in saves :
       /\ s.pc = "write"
       /\ papers' = savePaper(papers, s.newPaper)
       /\ saves' = (saves \ { s }) \cup { [ s EXCEPT !.pc = "written" ] }
  /\ UNCHANGED << users, appVars, userProfile, isAdmin, isHindiPaper, sections,
                  assemblyVars, regenVars, imageVars, internalExistingPaper,
                  downloadedFiles, exports, exportLog, props, session >>

\* the await returned: setInternalExistingPaper(newPaper)
handleSavePaper_Done ==
  /\ \E s \in saves :
       /\ s.pc = "written"
       /\ internalExistingPaper' = Some(s.newPaper)
       /\ saves' = saves \ { s }
  /\ UNCHANGED << storeVars, appVars, userProfile, isAdmin, isHindiPaper, sections,
                  assemblyVars, regenVars, imageVars, downloadedFiles, exports,
                  exportLog, props, session >>

\* StorageService.savePaper rejected: the handler ends there
handleSavePaper_Fail ==
  /\ \E s \in saves : s.pc = "write" /\ saves' = saves \ { s }
  /\ UNCHANGED << storeVars, appVars, userProfile, isAdmin, isHindiPaper, sections,
                  assemblyVars, regenVars, imageVars, internalExistingPaper,
                  downloadedFiles, exports, exportLog, props, session >>

(***************************************************************************)
(* Export governor, handleDownloadPDF.  An invocation carries the state    *)
(* its closure captured (internalExistingPaper, isAdmin, downloadedFiles), *)
(* the paper it creates when nothing was persisted, the document its       *)
(* cleanup read, and, as history, the download counter the store held for  *)
(* the document when the request was made.                                 *)
(***************************************************************************)
ExportTypes == { "paper", "key" }

\* the plans the gate applies to
DownloadLimited(profile) ==
  /\ profile.role # "ADMIN"
  /\ profile.plan \in { "PROFESSIONAL", "FREE", "STARTER" }

\* the gate: (internalExistingPaper.downloadCount || 0) >= 1 on a limited plan
DownloadGateRejects ==
  /\ IsSome(internalExistingPaper)
  /\ DownloadLimited(Get(userProfile))
  /\ Get(internalExistingPaper).downloadCount >= 1

\* the button of a projection is enabled and rendered
DownloadEnabled(type) == session = "open" /\ ~readOnly /\ ~downloadedFiles[type]

StoredDownloadCount(paper) ==
  IF IsSome(paper) /\ \E p \in papers : p.id = Get(paper).id
  THEN Some((CHOOSE p \in papers : p.id = Get(paper).id).downloadCount)
  ELSE None

\* the click is answered without an export: silently while the profile is not
\* loaded, with the limit alert at the gate
handleDownloadPDF_Reject ==
  /\ \E type \in ExportTypes :
       /\ DownloadEnabled(type)
       /\ \/ userProfile = None /\ exportLog' = [ exportLog EXCEPT !.last = "ignored" ]
          \/ /\ IsSome(userProfile) /\ DownloadGateRejects
             /\ exportLog' = [ exportLog EXCEPT !.last = "quota" ]
  /\ UNCHANGED << storeVars, appVars, userProfile, isAdmin, isHindiPaper, sections,
                  assemblyVars, regenVars, imageVars, internalExistingPaper,
                  downloadedFiles, saves, exports, props, session >>

\* the click passes the gate: a persisted paper goes to rendering, anything else
\* is saved first under a fresh id
handleDownloadPDF_Start ==
  /\ exportLog.exports < MaxExports
  /\ IsSome(userProfile)
  /\ ~DownloadGateRejects
  /\ \E type \in ExportTypes :
       /\ DownloadEnabled(type)
       /\ LET isEdit == IsSome(internalExistingPaper)
          IN exports' = exports \cup
               { [ eid       |-> LeastNotIn({ e.eid : e \in exports }),
                   type      |-> type,
                   pc        |-> IF isEdit THEN "render" ELSE "create",
                   paper     |-> internalExistingPaper,
                   admin     |-> isAdmin,
                   files     |-> downloadedFiles,
                   newPaper  |-> IF isEdit THEN None
                                 ELSE Some(Paper(LeastNotIn(PaperIdsInUse), sections,
                                                 userEmail, TRUE, TRUE, 0, 0)),
                   found     |-> None,
                   storedAtRequest |-> StoredDownloadCount(internalExistingPaper) ] }
  /\ exportLog' = [ exportLog EXCEPT !.exports = @ + 1, !.last = "accepted" ]
  /\ UNCHANGED << storeVars, appVars, userProfile, isAdmin, isHindiPaper, sections,
                  assemblyVars, regenVars, imageVars, internalExistingPaper,
                  downloadedFiles, saves, props, session >>

\* savePaperInternal(newPaper) writes the document
handleDownloadPDF_Create ==
  /\ \E e \in exports :
       /\ e.pc = "create"
       /\ papers' = savePaper(papers, Get(e.newPaper))
       /\ exports' = (exports \ { e }) \cup { [ e EXCEPT !.pc = "created" ] }
  /\ UNCHANGED << users, appVars, userProfile, isAdmin, isHindiPaper, sections,
                  assemblyVars, regenVars, imageVars, internalExistingPaper,
                  downloadedFiles, saves, exportLog, props, session >>

\* the await returned: setInternalExistingPaper(newPaper), then the print area
handleDownloadPDF_Created ==
  /\ \E e \in exports :
       /\ e.pc = "created"
       /\ internalExistingPaper' = e.newPaper
       /\ exports' = (exports \ { e }) \cup { [ e EXCEPT !.pc = "render" ] }
  /\ UNCHANGED << storeVars, appVars, userProfile, isAdmin, isHindiPaper, sections,
                  assemblyVars, regenVars, imageVars, downloadedFiles, saves,
                  exportLog, props, session >>

\* how cleanup ends: onClose, or the flag of the projection
Finished(e) ==
  /\ exports' = exports \ { e }
  /\ exportLog' = [ exportLog EXCEPT !.last = "done" ]
  /\ IF IsSome(props.autoDownload) \/ e.files[IF e.type = "key" THEN "paper" ELSE "key"]
     THEN session' = "closed" /\ downloadedFiles' = downloadedFiles
     ELSE session' = session /\ downloadedFiles' = [ downloadedFiles EXCEPT ![e.type] = TRUE ]

\* html2pdf settled (then and catch both run cleanup), or window.print returned:
\* cleanup looks the document up when the captured paper has an id
handleDownloadPDF_Rendered ==
  /\ \E e \in exports :
       /\ e.pc = "render"
       /\ IF IsSome(e.paper) /\ ~e.admin /\ ~IsSome(props.autoDownload)
          THEN /\ exports' = (exports \ { e }) \cup { [ e EXCEPT !.pc = "lookup" ] }
               /\ UNCHANGED << downloadedFiles, exportLog, session >>
          ELSE Finished(e)
  /\ UNCHANGED << storeVars, appVars, userProfile, isAdmin, isHindiPaper, sections,
                  assemblyVars, regenVars, imageVars, internalExistingPaper, saves,
                  props >>

\* getPapersByUser returned: userPapers.find(p => p.id === currentPaperId)
handleDownloadPDF_Lookup ==
  /\ \E e \in exports :
       /\ e.pc = "lookup"
       /\ LET hits == { p \in getPapersByUser(userEmail) : p.id = Get(e.paper).id }
          IN IF hits # { }
             THEN /\ exports' = (exports \ { e }) \cup
                       { [ e EXCEPT !.pc = "count", !.found = Some(CHOOSE p \in hits : TRUE) ] }
                  /\ UNCHANGED << downloadedFiles, exportLog, session >>
             ELSE Finished(e)
  /\ UNCHANGED << storeVars, appVars, userProfile, isAdmin, isHindiPaper, sections,
                  assemblyVars, regenVars, imageVars, internalExistingPaper, saves,
                  props >>

\* savePaper({ ...p, downloadCount: (p.downloadCount || 0) + 1 }) writes
handleDownloadPDF_Count ==
  /\ \E e \in exports :
       /\ e.pc = "count"
       /\ papers' = savePaper(papers, [ Get(e.found) EXCEPT !.downloadCount = @ + 1 ])
       /\ exports' = (exports \ { e }) \cup { [ e EXCEPT !.pc = "finish" ] }
  /\ UNCHANGED << users, appVars, userProfile, isAdmin, isHindiPaper, sections,
                  assemblyVars, regenVars, imageVars, internalExistingPaper,
                  downloadedFiles, saves, exportLog, props, session >>

\* the await returned: the rest of cleanup
handleDownloadPDF_Finish ==
  /\ \E e \in exports : e.pc = "finish" /\ Finished(e)
  /\ UNCHANGED << storeVars, appVars, userProfile, isAdmin, isHindiPaper, sections,
                  assemblyVars, regenVars, imageVars, internalExistingPaper, saves,
                  props >>

\* a storage call of the handler or of its cleanup rejected: nothing after it runs
handleDownloadPDF_Fail ==
  /\ \E e \in exports :
       /\ e.pc \in { "create", "lookup", "count" }
       /\ exports' = exports \ { e }
  /\ exportLog' = [ exportLog EXCEPT !.last = "failed" ]
  /\ UNCHANGED << storeVars, appVars, userProfile, isAdmin, isHindiPaper, sections,
                  assemblyVars, regenVars, imageVars, internalExistingPaper,
                  downloadedFiles, saves, props, session >>

(***************************************************************************)
(* Sessions: the generator is closed, and mounted again on a paper of the  *)
(* store once the requests of the closed session have settled.             *)
(***************************************************************************)
handleClose ==
  /\ session = "open"
  /\ session' = "closed"
  /\ UNCHANGED << storeVars, appVars, userProfile, isAdmin, isHindiPaper, sections,
                  assemblyVars, regenVars, imageVars, internalExistingPaper,
                  downloadedFiles, saves, exports, exportLog, props >>

\* the useState initialisers of a mount with props existingPaper, readOnly and
\* autoDownload
MountOn(existing, readOnlyProp, autoDownloadProp) ==
  /\ props' = [ existingPaper |-> Some(existing), readOnly |-> readOnlyProp,
                autoDownload |-> autoDownloadProp ]
  /\ internalExistingPaper' = Some(existing)
  /\ sections' = existing.sections
  /\ userProfile' = None
  /\ isAdmin' = FALSE
  /\ blueprint' = << >>
  /\ loadingAI' = FALSE
  /\ generationStatus' = ""
  /\ regeneratingQuestionId' = None
  /\ generatingImageId' = None
  /\ downloadedFiles' = [ paper |-> FALSE, key |-> FALSE ]
  /\ exportLog' = [ exportLog EXCEPT !.sessions = @ + 1, !.last = "none" ]
  /\ session' = "open"
  /\ UNCHANGED << storeVars, appVars, isHindiPaper, asm, asmLog, asmCount, regens,
                  regenLog, images, saves, exports >>

\* the paper is opened for editing
PaperGenerator_Mount ==
  /\ session = "closed"
  /\ exportLog.sessions < MaxSessions
  /\ asm.pc = "idle" /\ regens = { } /\ images = { } /\ saves = { } /\ exports = { }
  /\ \E existing \in getPapersByUser(userEmail) : MountOn(existing, FALSE, None)

\* the paper is opened view-only, with or without a download requested by the
\* caller
PaperGenerator_MountView ==
  /\ session = "closed"
  /\ exportLog.sessions < MaxSessions
  /\ asm.pc = "idle" /\ regens = { } /\ images = { } /\ saves = { } /\ exports = { }
  /\ \E existing \in getPapersByUser(userEmail),
        autoDownloadProp \in { None } \cup { Some(t) : t \in ExportTypes } :
       MountOn(existing, TRUE, autoDownloadProp)

\* the timer of the autoDownload effect calls the handleDownloadPDF of the first
\* render, where userProfile is null and isAdmin false: the view-only alert, or
\* the silent return
autoDownload_Timer ==
  /\ session = "open"
  /\ IsSome(props.autoDownload)
  /\ exportLog' = [ exportLog EXCEPT !.last =
                      IF IsSome(props.existingPaper) /\ props.readOnly
                      THEN "readonly" ELSE "ignored" ]
  /\ UNCHANGED << storeVars, appVars, userProfile, isAdmin, isHindiPaper, sections,
                  assemblyVars, regenVars, imageVars, internalExistingPaper,
                  downloadedFiles, saves, exports, props, session >>

(***************************************************************************)
(* Subscriptions.  `requests` holds the collection (docs), the updateUser   *)
(* calls of createPaymentRequest and processRequest that are awaited, each  *)
(* with the user document it read before (writes), and as history the       *)
(* number of processRequest calls so far (decisions) and what the last one  *)
(* read and was asked (last).                                               *)
(***************************************************************************)
NoRequests == [ docs |-> { }, writes |-> { }, decisions |-> 0, last |-> None ]

generatorVars == << userProfile, isAdmin, isHindiPaper, sections, assemblyVars,
                    regenVars, imageVars, exportVars >>

\* SubscriptionModal.handleSubmit of the user who is logged in, for one of the
\* plans on offer: the request is written, the user is read
createPaymentRequest(plans) ==
  /\ Cardinality(requests.docs) < MaxRequests
  /\ IsSome(getUser(userEmail))
  /\ \E email \in { userEmail }, plan \in plans :
       /\ requests' =
            [ requests EXCEPT
                !.docs = @ \cup { PaymentRequest(LeastNotIn({ r.id : r \in requests.docs }),
                                                 email, plan, "PENDING") },
                !.writes = @ \cup { [ email |-> email,
                                      user |-> [ users[email] EXCEPT !.status = "PENDING" ] ] } ]
  /\ UNCHANGED << storeVars, userEmail, other, app, generatorVars >>

\* processRequest(reqId, approved): the status of the request is written whatever
\* it was, the user is read
processRequest ==
  /\ requests.decisions < MaxDecisions
  /\ \E request \in requests.docs, approved \in BOOLEAN :
       LET newStatus == IF approved THEN "ACTIVE" ELSE "REJECTED"
           decided   == (requests.docs \ { request })
                          \cup { [ request EXCEPT !.status = newStatus ] }
           user      == getUser(request.userEmail)
       IN requests' =
            [ docs |-> decided,
              writes |-> IF IsSome(user)
                         THEN requests.writes \cup
                                { [ email |-> request.userEmail,
                                    user |-> ProcessedUser(Get(user), request, approved) ] }
                         ELSE requests.writes,
              decisions |-> requests.decisions + 1,
              last |-> Some([ request |-> request, approved |-> approved,
                              user |-> user ]) ]
  /\ UNCHANGED << storeVars, userEmail, other, app, generatorVars >>

\* an awaited updateUser of the two functions above writes its document
StorageService_updateUser ==
  /\ \E w \in requests.writes :
       /\ users' = updateUser(users, w.email, w.user)
       /\ requests' = [ requests EXCEPT !.writes = @ \ { w } ]
  /\ UNCHANGED << papers, userEmail, other, app, generatorVars >>

(***************************************************************************)
(* A second PaperGenerator of the same user, in another tab: its profile   *)
(* snapshot and its assemblies, of which only the credit guard and the     *)
(* deduction are followed.                                                 *)
(***************************************************************************)
NoOther == [ pc |-> "idle", userProfile |-> None, captured |-> None, count |-> 0 ]

\* its loadInitialData
OtherSession_loadInitialData ==
  /\ other.userProfile = None
  /\ IsSome(getUser(userEmail))
  /\ other' = [ other EXCEPT !.userProfile = getUser(userEmail) ]
  /\ UNCHANGED << storeVars, userEmail, requests, app, generatorVars >>

\* its handleGenerateFullPaper passes the credit guard on its own userProfile
OtherSession_Generate(maxInvocations) ==
  /\ other.pc = "idle"
  /\ other.count < maxInvocations
  /\ ~(IsSome(other.userProfile) /\ Get(other.userProfile).role # "ADMIN"
         /\ Get(other.userProfile).credits <= 0)
  /\ other' = [ other EXCEPT !.pc = "generating", !.captured = other.userProfile,
                             !.count = @ + 1 ]
  /\ UNCHANGED << storeVars, userEmail, requests, app, generatorVars >>

\* its items are produced: the deduction, from the profile the click captured
OtherSession_Deduct ==
  /\ other.pc = "generating"
  /\ IF IsSome(other.captured) /\ Get(other.captured).role # "ADMIN"
     THEN LET updatedUser == [ Get(other.captured) EXCEPT !.credits = @ - 1 ]
          IN /\ users' = updateUser(users, userEmail, updatedUser)
             /\ other' = [ other EXCEPT !.pc = "idle", !.captured = None,
                                        !.userProfile = Some(updatedUser) ]
     ELSE /\ users' = users
          /\ other' = [ other EXCEPT !.pc = "idle", !.captured = None ]
  /\ UNCHANGED << papers, userEmail, requests, app, generatorVars >>

(***************************************************************************)
(* App: login, registration, logout.                                       *)
(***************************************************************************)
\* the user handleLogin reads: the admin under the name 'admin', else the
\* document of the address typed; reading the admin runs ensureAdminExists
LoginLookup(store, loginEmail) ==
  IF loginEmail = "admin" \/ loginEmail = AdminEmail
  THEN Some(ensureAdminExists(store)[AdminEmail])
  ELSE IF loginEmail \in DOMAIN store THEN Some(store[loginEmail]) ELSE None

\* the password test of handleLogin:
\* loginPassword && u.password && u.password !== loginPassword
IncorrectPassword(u, loginPassword) ==
  loginPassword # "" /\ u.password # "" /\ u.password # loginPassword

\* handleLogin with the form as typed (the form is rendered while there is no
\* user); setUser(u) unless the user is missing or the password is found incorrect
handleLogin(emails, passwords) ==
  /\ app.user = None
  /\ \E loginEmail \in emails, loginPassword \in passwords :
       LET u == LoginLookup(users, loginEmail)
       IN /\ users' = IF loginEmail = "admin" \/ loginEmail = AdminEmail
                      THEN ensureAdminExists(users) ELSE users
          /\ app' = [ user |-> IF IsSome(u) /\ ~IncorrectPassword(Get(u), loginPassword)
                               THEN u ELSE app.user,
                      submitted |-> Some([ loginEmail |-> loginEmail,
                                           loginPassword |-> loginPassword ]) ]
  /\ UNCHANGED << papers, userEmail, requests, other, generatorVars >>

\* handleRegister with a valid form: createUser of a FREE teacher with one credit
handleRegister(emails, passwords) ==
  /\ \E email \in emails, password \in passwords :
       /\ password # ""
       /\ users' = createUser(users, email,
                              User("TEACHER", "FREE", 1, "ACTIVE", "none", password))
  /\ UNCHANGED << papers, userEmail, requests, other, app, generatorVars >>

handleLogout ==
  /\ app' = [ user |-> None, submitted |-> None ]
  /\ UNCHANGED << storeVars, userEmail, requests, other, generatorVars >>

\* the generator is rendered for the user who is logged in
SignedIn ==
  /\ requests = NoRequests
  /\ other = NoOther
  /\ app = [ user |-> getUser(userEmail), submitted |-> None ]

(***************************************************************************)
(* The state after the component is mounted for a new paper.               *)
(***************************************************************************)
Mounted ==
  /\ userProfile = None
  /\ isAdmin = FALSE
  /\ blueprint = << >>
  /\ loadingAI = FALSE
  /\ generationStatus = ""
  /\ asm = IdleAsm
  /\ asmLog = [ result |-> "none", produced |-> 0 ]
  /\ asmCount = 0
  /\ regens = { }
  /\ regeneratingQuestionId = None
  /\ regenLog = [ count |-> 0, last |-> "none" ]
  /\ images = { }
  /\ generatingImageId = None
  /\ props = [ existingPaper |-> None, readOnly |-> FALSE, autoDownload |-> None ]
  /\ internalExistingPaper = None
  /\ downloadedFiles = [ paper |-> FALSE, key |-> FALSE ]
  /\ saves = { }
  /\ exports = { }
  /\ exportLog = [ exports |-> 0, saves |-> 0, sessions |-> 1, last |-> "none" ]
  /\ session = "open"

Store(plans, credits) ==
  { [ e \in { TeacherEmail, AdminEmail } |->
        IF e = AdminEmail THEN AdminUser ELSE Teacher(p, c) ] : p \in plans, c \in credits }

(***************************************************************************)
(* Specification of the blueprint builder and the assembler.               *)
(***************************************************************************)
AsmCounts == { None, Some(1) }
AsmMarks  == { None, Some(125) }
AsmTopics == { "Algebra" }
AsmReplies == Replies({ "T1" }, { "A1" })

InitAssembly ==
  /\ users \in Store({ "STARTER" }, 0..MaxCredits)
  /\ papers = { }
  /\ userEmail \in { TeacherEmail, AdminEmail }
  /\ isHindiPaper = FALSE
  /\ sections = << >>
  /\ Mounted
  /\ SignedIn

NextAssembly ==
  \/ loadInitialData
  \/ handleAddToBlueprint(AsmCounts, AsmMarks, AsmTopics, { "MCQ" }, MaxBlueprint)
  \/ handleRemoveBlueprintItem
  \/ handleGenerateFullPaper_Reject
  \/ handleGenerateFullPaper_Start
  \/ handleGenerateFullPaper_Style
  \/ handleGenerateFullPaper_StyleFail
  \/ handleGenerateFullPaper_Item(AsmReplies)
  \/ handleGenerateFullPaper_ItemFail
  \/ handleGenerateFullPaper_Deduct
  \/ handleGenerateFullPaper_DeductFail

SpecAssembly == InitAssembly /\ [][NextAssembly]_vars

(***************************************************************************)
(* Specification of section labelling: longer blueprints of items that     *)
(* differ in their count, on a Hindi or a non-Hindi paper.                 *)
(***************************************************************************)
LabelCounts  == { Some(1), Some(2) }
LabelMarks   == { Some(500) }
LabelReplies == { << RawQuestion("T1", "A1") >> }

InitLabels ==
  /\ users \in Store({ "STARTER" }, { 1 })
  /\ papers = { }
  /\ userEmail = TeacherEmail
  /\ isHindiPaper \in BOOLEAN
  /\ sections = << >>
  /\ Mounted
  /\ SignedIn

NextLabels ==
  \/ loadInitialData
  \/ handleAddToBlueprint(LabelCounts, LabelMarks, AsmTopics, { "MCQ" }, MaxLabelled)
  \/ handleGenerateFullPaper_Reject
  \/ handleGenerateFullPaper_Start
  \/ handleGenerateFullPaper_Style
  \/ handleGenerateFullPaper_StyleFail
  \/ handleGenerateFullPaper_Item(LabelReplies)
  \/ handleGenerateFullPaper_ItemFail
  \/ handleGenerateFullPaper_Deduct
  \/ handleGenerateFullPaper_DeductFail

SpecLabels == InitLabels /\ [][NextLabels]_vars

(***************************************************************************)
(* Specification of the editor and the regeneration governor, on a paper   *)
(* as the assembler installs it: one section per blueprint item, here with *)
(* one question each.                                                      *)
(***************************************************************************)
AssembledSections(bp) ==
  [ k \in 1..Len(bp) |->
      MakeSection(k, SectionTitle(FALSE, k - 1),
                  MapReply(<< RawQuestion("T1", "A1") >>,
                           bp[k].type, bp[k].marks, bp[k].topic, << k >>)) ]

EditorBlueprint == << BlueprintItem(1, "Algebra", "MCQ", 1, 125) >>

EditorEdits   == { << "marks", 1000 >>, << "imageUrl", "none" >> }
EditorTitles  == { << "", "" >> }
EditorReplies == Replies({ "T2" }, { "A2" })

InitEditor ==
  /\ users \in Store(Plans, { 0 })
  /\ papers = { }
  /\ userEmail \in { TeacherEmail, AdminEmail }
  /\ isHindiPaper = FALSE
  /\ sections = AssembledSections(EditorBlueprint)
  /\ Mounted
  /\ SignedIn

NextEditor ==
  \/ loadInitialData
  \/ handleDeleteSection
  \/ handleAddQuestionToSection
  \/ handleUpdateSectionTitle(EditorTitles)
  \/ handleUpdateQuestion(EditorEdits)
  \/ handleDeleteQuestion
  \/ handleUploadImage
  \/ handleRegenerateQuestion_Reject
  \/ handleRegenerateQuestion_Start(MaxEditorRegens)
  \/ handleRegenerateQuestion_Style
  \/ handleRegenerateQuestion_Reply(EditorReplies)
  \/ handleRegenerateQuestion_Fail

SpecEditor == InitEditor /\ [][NextEditor]_vars

(***************************************************************************)
(* Specification of the regeneration governor: a paper of two sections of  *)
(* one question each, regenerations of both in flight at once, while       *)
(* questions and sections are deleted and marks are edited.                *)
(***************************************************************************)
RegenBlueprint == << BlueprintItem(1, "Algebra", "MCQ", 1, 125),
                     BlueprintItem(2, "Algebra", "MCQ", 1, 125) >>

RegenEdits   == { << "marks", 1000 >> }
RegenReplies == Replies({ "T2", "T3" }, { "A2" })

InitRegen ==
  /\ users \in Store(Plans, { 0 })
  /\ papers = { }
  /\ userEmail \in { TeacherEmail, AdminEmail }
  /\ isHindiPaper = FALSE
  /\ sections = AssembledSections(RegenBlueprint)
  /\ Mounted
  /\ SignedIn

NextRegen ==
  \/ loadInitialData
  \/ handleDeleteSection
  \/ handleUpdateQuestion(RegenEdits)
  \/ handleDeleteQuestion
  \/ handleRegenerateQuestion_Reject
  \/ handleRegenerateQuestion_Start(MaxRegens)
  \/ handleRegenerateQuestion_Style
  \/ handleRegenerateQuestion_Reply(RegenReplies)
  \/ handleRegenerateQuestion_Fail

SpecRegen == InitRegen /\ [][NextRegen]_vars

(***************************************************************************)
(* Specification of saving and exporting: an assembled paper of one        *)
(* section, not persisted yet, saved and exported in one session and in    *)
(* the next.                                                               *)
(***************************************************************************)
InitExport ==
  /\ users \in Store({ "FREE", "STARTER", "PROFESSIONAL", "PREMIUM" }, { 0 })
  /\ papers = { }
  /\ userEmail \in { TeacherEmail, AdminEmail }
  /\ isHindiPaper = FALSE
  /\ sections = AssembledSections(EditorBlueprint)
  /\ Mounted
  /\ SignedIn

NextExport ==
  \/ loadInitialData
  \/ handleSavePaper_Start
  \/ handleSavePaper_Write
  \/ handleSavePaper_Done
  \/ handleSavePaper_Fail
  \/ handleDownloadPDF_Reject
  \/ handleDownloadPDF_Start
  \/ handleDownloadPDF_Create
  \/ handleDownloadPDF_Created
  \/ handleDownloadPDF_Rendered
  \/ handleDownloadPDF_Lookup
  \/ handleDownloadPDF_Count
  \/ handleDownloadPDF_Finish
  \/ handleDownloadPDF_Fail
  \/ handleClose
  \/ PaperGenerator_Mount

SpecExport == InitExport /\ [][NextExport]_vars

(***************************************************************************)
(* Specification of the guards: a teacher on a limited plan who has a      *)
(* paper in the store, exported before or not, starts a new paper and      *)
(* later opens the stored one, and assembles, regenerates and exports      *)
(* until the guards of the three handlers turn the clicks away.            *)
(***************************************************************************)
GuardReplies == { << RawQuestion("T2", "A2") >> }

InitGuards ==
  /\ users \in Store({ "FREE" }, 0..MaxCredits)
  /\ papers \in { { Paper(1, AssembledSections(EditorBlueprint), TeacherEmail,
                          TRUE, TRUE, 0, downloadCount) } : downloadCount \in 0..1 }
  /\ userEmail = TeacherEmail
  /\ isHindiPaper = FALSE
  /\ sections = << >>
  /\ Mounted
  /\ SignedIn

NextGuards ==
  \/ loadInitialData
  \/ handleAddToBlueprint({ Some(1) }, { Some(125) }, AsmTopics, { "MCQ" }, 1)
  \/ handleGenerateFullPaper_Reject
  \/ handleGenerateFullPaper_Start
  \/ handleGenerateFullPaper_Style
  \/ handleGenerateFullPaper_Item(GuardReplies)
  \/ handleGenerateFullPaper_Deduct
  \/ handleRegenerateQuestion_Reject
  \/ handleRegenerateQuestion_Start(MaxEditorRegens)
  \/ handleRegenerateQuestion_Style
  \/ handleRegenerateQuestion_Reply(GuardReplies)
  \/ handleDownloadPDF_Reject
  \/ handleDownloadPDF_Start
  \/ handleDownloadPDF_Create
  \/ handleDownloadPDF_Created
  \/ handleDownloadPDF_Rendered
  \/ handleDownloadPDF_Lookup
  \/ handleDownloadPDF_Count
  \/ handleDownloadPDF_Finish
  \/ handleClose
  \/ PaperGenerator_Mount
  \/ PaperGenerator_MountView
  \/ autoDownload_Timer

SpecGuards == InitGuards /\ [][NextGuards]_vars

(***************************************************************************)
(* Specification of credits: a teacher assembles papers in two tabs while   *)
(* payment requests are submitted and decided and a colleague registers.    *)
(***************************************************************************)
InitBilling ==
  /\ users \in Store({ "FREE" }, 0..MaxCredits)
  /\ papers = { }
  /\ userEmail = TeacherEmail
  /\ isHindiPaper = FALSE
  /\ sections = << >>
  /\ Mounted
  /\ SignedIn

NextBilling ==
  \/ loadInitialData
  \/ handleAddToBlueprint({ Some(1) }, { Some(125) }, AsmTopics, { "MCQ" }, 1)
  \/ handleGenerateFullPaper_Reject
  \/ handleGenerateFullPaper_Start
  \/ handleGenerateFullPaper_Style
  \/ handleGenerateFullPaper_Item(GuardReplies)
  \/ handleGenerateFullPaper_Deduct
  \/ OtherSession_loadInitialData
  \/ OtherSession_Generate(1)
  \/ OtherSession_Deduct
  \/ createPaymentRequest({ "PROFESSIONAL" })
  \/ processRequest
  \/ StorageService_updateUser
  \/ handleRegister({ NewEmail, TeacherEmail }, { "secret" })

SpecBilling == InitBilling /\ [][NextBilling]_vars

(***************************************************************************)
(* Specification of the welcome screen: login, registration and logout on  *)
(* a store that holds the demo teacher, with or without the admin.         *)
(***************************************************************************)
LoginEmails    == { TeacherEmail, NewEmail, AdminEmail, "admin", "nobody@school" }
LoginPasswords == { "", "password123", "secret", "admin", "wrong", "guess" }

InitLogin ==
  /\ users \in Store({ "FREE" }, { 1 })
               \cup { [ e \in { TeacherEmail } |-> Teacher("FREE", 1) ] }
  /\ papers = { }
  /\ userEmail = TeacherEmail
  /\ isHindiPaper = FALSE
  /\ sections = << >>
  /\ Mounted
  /\ requests = NoRequests
  /\ other = NoOther
  /\ app = [ user |-> None, submitted |-> None ]

NextLogin ==
  \/ handleLogin(LoginEmails, LoginPasswords)
  \/ handleRegister({ NewEmail, TeacherEmail }, { "secret", "password123" })
  \/ handleLogout

SpecLogin == InitLogin /\ [][NextLogin]_vars

(***************************************************************************)
(* Specification of late results: a paper of two sections is edited while  *)
(* regeneration and image requests are in flight; questions and sections   *)
(* are deleted and the section list is replaced by a new assembly.         *)
(***************************************************************************)
InitResults ==
  /\ users \in Store({ "PROFESSIONAL" }, { 1 })
  /\ papers = { }
  /\ userEmail = TeacherEmail
  /\ isHindiPaper = FALSE
  /\ sections = AssembledSections(RegenBlueprint)
  /\ Mounted
  /\ SignedIn

NextResults ==
  \/ loadInitialData
  \/ handleAddToBlueprint({ Some(1) }, { Some(125) }, { "Algebra" }, { "MCQ" }, 1)
  \/ handleGenerateFullPaper_Start
  \/ handleGenerateFullPaper_Style
  \/ handleGenerateFullPaper_Item(GuardReplies)
  \/ handleGenerateFullPaper_Deduct
  \/ handleDeleteSection
  \/ handleDeleteQuestion
  \/ handleRegenerateQuestion_Start(MaxEditorRegens)
  \/ handleRegenerateQuestion_Style
  \/ handleRegenerateQuestion_Reply(GuardReplies)
  \/ handleGenerateImage_Start
  \/ generateImageForQuestion_Settle
  \/ handleGenerateImage_Then

SpecResults == InitResults /\ [][NextResults]_vars

(***************************************************************************)
(* Specification of completion: every call that was dispatched is answered *)
(* or fails, and the continuation of the handler that awaits it runs.      *)
(***************************************************************************)
InitCompletion ==
  /\ users \in Store({ "STARTER" }, { 1 })
  /\ papers = { }
  /\ userEmail = TeacherEmail
  /\ isHindiPaper = FALSE
  /\ sections = AssembledSections(<< BlueprintItem(1, "Algebra", "MCQ", 1, 125) >>)
  /\ Mounted
  /\ SignedIn

\* the awaits of handleGenerateFullPaper settle
AssemblySettles ==
  \/ handleGenerateFullPaper_Style
  \/ handleGenerateFullPaper_StyleFail
  \/ handleGenerateFullPaper_Item(GuardReplies)
  \/ handleGenerateFullPaper_ItemFail
  \/ handleGenerateFullPaper_Deduct
  \/ handleGenerateFullPaper_DeductFail

\* the awaits of handleRegenerateQuestion settle
RegenerationSettles ==
  \/ handleRegenerateQuestion_Style
  \/ handleRegenerateQuestion_Reply(GuardReplies)
  \/ handleRegenerateQuestion_Fail

\* the await of handleGenerateImage settles
ImageSettles ==
  \/ generateImageForQuestion_Settle
  \/ handleGenerateImage_Then
  \/ handleGenerateImage_Catch

NextCompletion ==
  \/ loadInitialData
  \/ handleAddToBlueprint({ Some(1) }, { Some(125) }, { "Algebra" }, { "MCQ" }, 1)
  \/ handleGenerateFullPaper_Start
  \/ handleRegenerateQuestion_Start(MaxEditorRegens + 1)
  \/ handleGenerateImage_Start
  \/ AssemblySettles
  \/ RegenerationSettles
  \/ ImageSettles

\* the step belongs to the regeneration numbered rid / the image request numbered iid
RegenerationStepOf(rid) ==
  RegenerationSettles /\ \E r \in regens : r.rid = rid /\ r \notin regens'

ImageStepOf(iid) ==
  ImageSettles /\ \E r \in images : r.iid = iid /\ r \notin images'

\* every call is answered or fails, and the handler that awaits it continues
SpecCompletion ==
  /\ InitCompletion /\ [][NextCompletion]_vars
  /\ WF_vars(AssemblySettles)
  /\ \A rid \in 1..(MaxEditorRegens + 1) : WF_vars(RegenerationStepOf(rid))
  /\ \A iid \in 1..MaxImages : WF_vars(ImageStepOf(iid))

(***************************************************************************)
(* Specification of the two projections under edits of the question        *)
(* fields, on a paper of two sections of one question each.                *)
(***************************************************************************)
ProjectionEdits == { << "text", "edited" >>, << "answer", "corrected" >>,
                     << "options", "opts2" >> }

InitProjection ==
  /\ users \in Store({ "STARTER" }, { 0 })
  /\ papers = { }
  /\ userEmail \in { TeacherEmail, AdminEmail }
  /\ isHindiPaper = FALSE
  /\ sections = AssembledSections(RegenBlueprint)
  /\ Mounted
  /\ SignedIn

NextProjection ==
  \/ loadInitialData
  \/ handleUpdateQuestion(ProjectionEdits)
  \/ handleUpdateSectionTitle(EditorTitles)
  \/ handleDeleteQuestion
  \/ handleDeleteSection

SpecProjection == InitProjection /\ [][NextProjection]_vars

(***************************************************************************)
(* Specification of the AI diagrams: a paper of two sections of one        *)
(* question each, diagrams requested for both while images are uploaded    *)
(* and removed and questions are deleted.                                  *)
(***************************************************************************)
ImageEdits == { << "imageUrl", "none" >> }

InitImage ==
  /\ users \in Store({ "STARTER" }, { 0 })
  /\ papers = { }
  /\ userEmail = TeacherEmail
  /\ isHindiPaper = FALSE
  /\ sections = AssembledSections(RegenBlueprint)
  /\ Mounted
  /\ SignedIn

NextImage ==
  \/ handleGenerateImage_Start
  \/ generateImageForQuestion_Settle
  \/ handleGenerateImage_Then
  \/ handleGenerateImage_Catch
  \/ handleUploadImage
  \/ handleUpdateQuestion(ImageEdits)
  \/ handleDeleteQuestion

SpecImage == InitImage /\ [][NextImage]_vars

(***************************************************************************)
(* Specification of the papers collection: documents of every shape are    *)
(* saved and deleted, starting from the empty collection.                  *)
(***************************************************************************)
StoreDocs ==
  { Paper(id, << >>, owner, vt, va, ec, dc) :
      id \in 1..MaxPapers, owner \in { TeacherEmail, AdminEmail },
      vt \in BOOLEAN, va \in BOOLEAN, ec \in 0..MaxCount, dc \in 0..MaxCount }

InitStore ==
  /\ users \in Store({ "STARTER" }, { 0 })
  /\ papers = { }
  /\ userEmail = TeacherEmail
  /\ isHindiPaper = FALSE
  /\ sections = << >>
  /\ Mounted
  /\ SignedIn

NextStore ==
  \/ StorageService_savePaper(StoreDocs)
  \/ StorageService_deletePaper

SpecStore == InitStore /\ [][NextStore]_vars

(***************************************************************************)
(* Claims about the blueprint builder and the assembler.                   *)
(***************************************************************************)
Caller == users[userEmail]

\* the step in which an invocation ends by committing / by abandoning
AssemblyCommits == asm.pc # "idle" /\ asm'.pc = "idle" /\ asmLog'.result = "ok"
AssemblyFails   == asm.pc # "idle" /\ asm'.pc = "idle" /\ asmLog'.result = "failed"

\* C4: when an assembly is abandoned (the style lookup, the call of some item j,
\* or the credit write failed), the section list is the one the assembly started
\* from and the caller's credits, in the session profile and in the user store,
\* are what they were; and no step before the end touches either.
C4_FailedAssemblyChangesNothing ==
  [][ /\ (asm.pc # "idle" =>
            /\ sections = asm.sectionsBefore
            /\ getUser(userEmail) = asm.storedBefore
            /\ (IsSome(asm.profile) => userProfile = asm.profile))
      /\ (AssemblyFails =>
            /\ sections' = asm.sectionsBefore
            /\ getUser(userEmail)' = asm.storedBefore
            /\ (IsSome(asm.profile) => userProfile' = asm.profile)
            /\ (IsSome(userProfile') =>
                  Get(userProfile').credits = Get(asm.storedBefore).credits)) ]_vars

\* C4 witness: an assembly over an installed section list was abandoned at its
\* second item, with one section already produced.
C4_Witness ==
  /\ asmLog.result = "failed" /\ asmLog.produced >= 1
  /\ Len(sections) >= 1
  /\ asm.pc = "idle"

\* C5: a committing assembly of a non-admin caller leaves the stored user and the
\* session profile at the previous credits minus one; an admin's credits stay.
C5_OneCreditPerAssembly ==
  [][ AssemblyCommits =>
        IF Caller.role = "ADMIN"
        THEN Caller'.credits = Get(asm.storedBefore).credits
        ELSE /\ Caller'.credits = Get(asm.storedBefore).credits - 1
             /\ IsSome(userProfile')
             /\ Get(userProfile').credits = Get(asm.storedBefore).credits - 1 ]_vars

\* C6: no invocation of a non-admin caller whose stored credits are zero gets past
\* the guards (none is ever running, so none dispatches a call).
C6_ZeroCreditsRejected ==
  (asm.pc # "idle" /\ Caller.role # "ADMIN") => Get(asm.storedBefore).credits > 0

\* C9: a committing assembly installs one section per blueprint item, in blueprint
\* order: section i carries the title of position i and questions of item i's type,
\* topic and marks, the i-th call asked for item i, and the labels are distinct.
ExpectedLatin  == << "A", "B", "C", "D", "E", "F", "G", "H", "I", "J" >>
ExpectedNative == << "hi-a", "hi-ba", "hi-sa", "hi-da", "hi-i", "hi-pha" >>

ExpectedTitle(hindi, i) ==
  IF hindi THEN << "khand", IF i <= 6 THEN ExpectedNative[i] ELSE ExpectedLatin[i] >>
  ELSE << "SECTION", ExpectedLatin[i] >>

BuiltInOrder(secs, bp, calls, hindi) ==
  /\ Len(secs) = Len(bp)
  /\ Len(calls) = Len(bp)
  /\ \A i \in 1..Len(bp) :
       /\ secs[i].title = ExpectedTitle(hindi, i)
       /\ calls[i] = [ topic |-> bp[i].topic, type |-> bp[i].type,
                       count |-> bp[i].count, marks |-> bp[i].marks ]
       /\ \A q \in Range(secs[i].questions) :
            q.type = bp[i].type /\ q.topic = bp[i].topic /\ q.marks = bp[i].marks
  /\ \A i, j \in 1..Len(secs) : i # j => secs[i].title # secs[j].title

PlanLimit(u) ==
  IF u.role = "ADMIN" THEN 3
  ELSE CASE u.plan = "FREE"         -> 1
         [] u.plan = "STARTER"      -> 1
         [] u.plan = "PROFESSIONAL" -> 2
         [] u.plan = "PREMIUM"      -> 3

\* C2: no question's regenerateCount exceeds the allowance of the caller's plan,
\* and every invocation that got past the guard (so every generation call in
\* flight) was made for a question whose count was below the allowance: a request
\* at the limit dispatches nothing.
C2_RegenerationsWithinPlanLimit ==
  /\ \A q \in QuestionsOf(sections) : q.regenerateCount <= PlanLimit(Caller)
  /\ \A r \in regens : r.question.regenerateCount < PlanLimit(Caller)

\* C2 witness: a caller with an allowance of two or more has used it up on a
\* question, and the request that followed was rejected with nothing in flight.
C2_Witness ==
  /\ IsSome(userProfile)
  /\ PlanLimit(Caller) >= 2
  /\ \E q \in QuestionsOf(sections) : q.regenerateCount = PlanLimit(Caller)
  /\ regenLog.last = "rejected"
  /\ regens = { }

\* C3: at most one generation call is outstanding per question id.
C3_OneRegenerationPerQuestion ==
  \A r1, r2 \in regens :
     (r1.pc = "gen" /\ r2.pc = "gen" /\ r1.question.id = r2.question.id) => r1 = r2

(***************************************************************************)
(* Claims about the export governor.                                       *)
(***************************************************************************)
QuotaRestricted(u) ==
  u.role # "ADMIN" /\ u.plan \in { "FREE", "STARTER", "PROFESSIONAL" }

\* C7: for a non-admin caller on the FREE, STARTER or PROFESSIONAL plan no export
\* request, for either projection, gets past the gate once the stored download
\* counter of the document has reached 1: every export under way was requested
\* when the document was not persisted or its stored counter was 0.
C7_NoExportPastTheAllowance ==
  QuotaRestricted(Caller) =>
    \A e \in exports : IsSome(e.storedAtRequest) => Get(e.storedAtRequest) < 1

\* the step in which export e runs to its end
ExportCompletes(e) ==
  e \in exports /\ exports' = exports \ { e } /\ exportLog'.last = "done"

\* C8: an export by a quota-restricted caller of a document that was not persisted
\* renders only once the document is in the store, and when it has completed the
\* stored document's downloadCount is 1.
C8_FirstExportPersistsAndCounts ==
  [][ \A e \in exports :
        (QuotaRestricted(Caller) /\ IsSome(e.newPaper)) =>
          /\ (e.pc \in { "render", "finish" } =>
                \E p \in papers : p.id = Get(e.newPaper).id)
          /\ (ExportCompletes(e) =>
                \E p \in papers' : p.id = Get(e.newPaper).id /\ p.downloadCount = 1)
    ]_vars

\* C10: every item of the blueprint, and every call an assembly dispatched, has
\* count >= 1 and marks > 0.
C10_BlueprintItemsValid ==
  /\ \A b \in Range(blueprint) : b.count >= 1 /\ b.marks > 0
  /\ \A c \in Range(asm.calls) : c.count >= 1 /\ c.marks > 0

\* an exempt caller: the admin role, or the PREMIUM plan
Exempt(u) == u.role = "ADMIN" \/ u.plan = "PREMIUM"

\* C11: no export request of an exempt caller is answered with the limit alert,
\* and no step of an export of an exempt caller changes the downloadCount of a
\* stored document.
C11_ExemptBypassTheCounter ==
  [][ Exempt(Caller) =>
        /\ (exportLog'.last = "quota" => exportLog.last = "quota")
        /\ (exports' # exports =>
              \A p \in papers, q \in papers' :
                 p.id = q.id => q.downloadCount = p.downloadCount) ]_vars

(***************************************************************************)
(* Claims about the projections and the document total.                    *)
(***************************************************************************)
\* the step keeps every section and question in its place
SameShape ==
  /\ Len(sections') = Len(sections)
  /\ \A i \in 1..Len(sections) :
       /\ sections'[i].id = sections[i].id
       /\ Len(sections'[i].questions) = Len(sections[i].questions)

\* every question but the one at (i, j) is what it was
OthersUnchanged(i, j) ==
  \A k \in 1..Len(sections) : \A l \in 1..Len(sections[k].questions) :
     << k, l >> # << i, j >> => sections'[k].questions[l] = sections[k].questions[l]

\* C12: a step that changes the prompt text of a question leaves its answer and
\* the whole answer-key projection as they were; a step that changes its answer
\* leaves its text, options, match pairs and marks and the whole paper projection
\* as they were; neither changes another question.
C12_TextAndAnswerIndependent ==
  [][ SameShape =>
        \A i \in 1..Len(sections) : \A j \in 1..Len(sections[i].questions) :
           LET q == sections[i].questions[j]
               r == sections'[i].questions[j]
           IN /\ r.text # q.text =>
                   /\ r.answer = q.answer
                   /\ renderAnswerKeyContent(sections') = renderAnswerKeyContent(sections)
                   /\ OthersUnchanged(i, j)
              /\ r.answer # q.answer =>
                   /\ r.text = q.text /\ r.options = q.options
                   /\ r.matchPairs = q.matchPairs /\ r.marks = q.marks
                   /\ renderPrintContent(sections') = renderPrintContent(sections)
                   /\ OthersUnchanged(i, j) ]_vars

\* C12 witness: the text of the first question and the answer of the second were
\* edited; the paper shows the new text and the key the new answer, each next to
\* the other question's original.
C12_Witness ==
  /\ Len(sections) = 2
  /\ Len(sections[1].questions) = 1 /\ Len(sections[2].questions) = 1
  /\ renderPrintContent(sections)[1].questions[1].text = "edited"
  /\ renderAnswerKeyContent(sections)[1].questions[1].answer = "A1"
  /\ renderPrintContent(sections)[2].questions[1].text = "T1"
  /\ renderAnswerKeyContent(sections)[2].questions[1].answer = "corrected"

(***************************************************************************)
(* Claims about the papers collection.                                     *)
(***************************************************************************)
\* C13: on every store and for every document d, saving d a second time changes
\* nothing: the store after two saves is the store after one, and it holds
\* exactly one record under d.id.
C13_SaveIsIdempotent ==
  \A d \in StoreDocs :
     LET once == savePaper(papers, d)
     IN /\ savePaper(once, d) = once
        /\ Cardinality({ p \in once : p.id = d.id }) = 1


\* the document stored under the id of p after the step
StoredAfter(p) == { q \in papers' : q.id = p.id }

\* C14: hiding a paper from one audience is not destructive and touches one flag.
\* A step that is deletePaper(p.id, 'TEACHER') leaves the document in the
\* collection, out of getPapersByUser of its owner, in getAllPapers when it was
\* visible to the admin, equal to p in every field but visibleToTeacher, and every
\* other document as it was; deletePaper(p.id, 'ADMIN') does the same with the two
\* audiences exchanged.  getPapersByUser(owner) returns documents created by owner
\* only.
C14_SoftHideOneAudience ==
  [][ /\ \A email \in { TeacherEmail, AdminEmail } :
           \A q \in getPapersByUser(email)' : q.createdBy = email
      /\ \A p \in papers :
           /\ papers' = deletePaper(papers, p.id, "TEACHER") =>
                /\ StoredAfter(p) # { }
                /\ \A q \in getPapersByUser(p.createdBy)' : q.id # p.id
                /\ (p.visibleToAdmin => \E q \in getAllPapers' : q.id = p.id)
                /\ \A q \in StoredAfter(p) :
                      /\ ~q.visibleToTeacher
                      /\ q.visibleToAdmin = p.visibleToAdmin
                      /\ q.sections = p.sections /\ q.createdBy = p.createdBy
                      /\ q.editCount = p.editCount
                      /\ q.downloadCount = p.downloadCount
                /\ papers' \ StoredAfter(p) = papers \ { p }
           /\ papers' = deletePaper(papers, p.id, "ADMIN") =>
                /\ StoredAfter(p) # { }
                /\ \A q \in getAllPapers' : q.id # p.id
                /\ (p.visibleToTeacher =>
                      \E q \in getPapersByUser(p.createdBy)' : q.id = p.id)
                /\ \A q \in StoredAfter(p) :
                      /\ ~q.visibleToAdmin
                      /\ q.visibleToTeacher = p.visibleToTeacher
                      /\ q.sections = p.sections /\ q.createdBy = p.createdBy
                      /\ q.editCount = p.editCount
                      /\ q.downloadCount = p.downloadCount
                /\ papers' \ StoredAfter(p) = papers \ { p } ]_vars

\* one paper hidden from its owner and still listed for the admin, another hidden
\* from the admin and still listed for its owner
C14_Witness ==
  \E p \in papers, q \in papers :
     /\ p.id # q.id
     /\ p \notin getPapersByUser(p.createdBy) /\ p \in getAllPapers
     /\ q \in getPapersByUser(q.createdBy) /\ q \notin getAllPapers


\* the sum of the section totals, taken from the last section backwards
SectionTotalsSum ==
  LET RECURSIVE From(_)
      From(k) == IF k > Len(sections) THEN 0
                 ELSE sections[k].totalMarks + From(k + 1)
  IN From(1)

\* t is x rounded to two decimals: a multiple of 0.01 at distance at most 0.005
\* from x, the one of larger magnitude on a tie
RoundedTo2(t, x) ==
  /\ t % 10 = 0
  /\ t - x <= 5 /\ x - t <= 5
  /\ (x >= 0 => x - t # 5)
  /\ (x < 0 => t - x # 5)

\* C15: in every state the document total of the header is the sum of the
\* totalMarks of the sections of the current section list, rounded to two
\* decimals, whatever edits, regenerations and deletions led to the state.
C15_DocumentTotalIsLiveSum ==
  RoundedTo2(calculateTotalMarks, SectionTotalsSum)

\* two sections, one of them with a regenerated question and a total that is not
\* the sum of its questions' marks
C15_Witness ==
  /\ Len(sections) = 2
  /\ \E s \in Range(sections) :
        /\ s.totalMarks # ToFixed2(SumMarks(s.questions))
        /\ \E q \in Range(s.questions) : q.regenerateCount > 0


(***************************************************************************)
(* Claims about the AI diagrams.                                           *)
(***************************************************************************)
\* q2 is q1 but for its image reference and its image width
SameButImage(q1, q2) ==
  q2 = [ q1 EXCEPT !.imageUrl = q2.imageUrl, !.imageWidth = q2.imageWidth ]

\* an invocation of handleGenerateImage that ends in this step leaves the section
\* list as it was but for the image reference and width of its target question
ImageStepTouchesOnlyTarget ==
  \A r \in images \ images' :
     /\ Len(sections') = Len(sections)
     /\ \A i \in 1..Len(sections) :
          /\ Len(sections'[i].questions) = Len(sections[i].questions)
          /\ [ sections'[i] EXCEPT !.questions = << >> ]
               = [ sections[i] EXCEPT !.questions = << >> ]
          /\ \A j \in 1..Len(sections[i].questions) :
               LET q1 == sections[i].questions[j]
                   q2 == sections'[i].questions[j]
               IN IF sections[i].id = r.sectionId /\ q1.id = r.qId
                  THEN SameButImage(q1, q2)
                  ELSE q2 = q1

\* C16: a call of generateImageForQuestion never ends rejected, whatever fails
\* (the image model, a reply without an image part, the client set-up): it
\* resolves to an image or to a placeholder; and an invocation of
\* handleGenerateImage changes nothing but the image reference and the image
\* width of its target question.
C16_ImageCallNeverRejects ==
  [][ /\ \A r \in images' : r.result.settled # "rejected"
      /\ ImageStepTouchesOnlyTarget ]_vars


\* C17: the session that starts on a new paper persists one document at most:
\* however its saves and exports interleave, every write of the session (the
\* create of an export, an explicit save, a counter update) goes to one and the
\* same document id.
C17_OneDocumentPerNewPaper ==
  (exportLog.sessions = 1 /\ props.existingPaper = None) =>
     Cardinality({ p.id : p \in papers }) <= 1


\* C18: the downloadCount stored for a document never decreases: no write of a
\* save or of an export, in the session of the export or in a later one, stores a
\* smaller count under the id of a stored document.
C18_DownloadCountNeverDecreases ==
  [][ \A p \in papers, q \in papers' :
         q.id = p.id => q.downloadCount >= p.downloadCount ]_vars


(***************************************************************************)
(* Claims about the order of the assembler's calls.                        *)
(***************************************************************************)
\* calls of the running assembly that have not returned
Outstanding == Len(asm.calls) - Len(asm.generated)

\* C19: an assembly has one generation call outstanding at most.  A call is
\* dispatched one at a time, for the item after the last one dispatched, and a
\* call after the first leaves in the step in which the call before it returned
\* its questions; the step in which an item fails dispatches nothing and ends the
\* invocation, so no later item is called.
C19_OneCallAtATime ==
  [][ /\ Outstanding' \in { 0, 1 }
      /\ Len(asm'.calls) > Len(asm.calls) =>
           /\ Len(asm'.calls) = Len(asm.calls) + 1
           /\ asm'.calls[Len(asm'.calls)] = CallArgs(asm'.bp[Len(asm'.calls)])
           /\ Len(asm'.generated) = Len(asm.calls)
           /\ asm.pc = "gen" => /\ Outstanding = 1
                                /\ Len(asm'.generated) = Len(asm.generated) + 1
      /\ AssemblyFails => asm'.calls = << >> /\ Outstanding' = 0 ]_vars

\* the call for the second item is outstanding, that for the first has returned
C19_Witness ==
  /\ asm.pc = "gen" /\ Len(asm.calls) = 2 /\ Len(asm.generated) = 1


(***************************************************************************)
(* Claims about what a regeneration replaces.                              *)
(***************************************************************************)
\* the step installs the reply of invocation r
RegenerationSucceeds(r) ==
  r \in regens /\ r \notin regens' /\ r.pc = "gen" /\ sections' # sections

\* but for the question r was called on, the section list is as it was: the same
\* sections with their ids, titles and totals, the same questions in the same
\* places; the new question has the id, type, topic and marks of the original
ReplacedInPlace(r) ==
  /\ Len(sections') = Len(sections)
  /\ \A i \in 1..Len(sections) :
       /\ Len(sections'[i].questions) = Len(sections[i].questions)
       /\ [ sections'[i] EXCEPT !.questions = << >> ]
            = [ sections[i] EXCEPT !.questions = << >> ]
       /\ \A j \in 1..Len(sections[i].questions) :
            LET q1 == sections[i].questions[j]
                q2 == sections'[i].questions[j]
            IN IF sections[i].id = r.sectionId /\ q1.id = r.question.id
               THEN /\ q2.id = q1.id
                    /\ q2.type = r.question.type
                    /\ q2.topic = r.question.topic
                    /\ q2.marks = r.question.marks
               ELSE q2 = q1

\* the counter of the question r was called on is one more than it was
CounterIncremented(r) ==
  \A i \in 1..Len(sections) : \A j \in 1..Len(sections[i].questions) :
     (sections[i].id = r.sectionId /\ sections[i].questions[j].id = r.question.id)
       => sections'[i].questions[j].regenerateCount
            = sections[i].questions[j].regenerateCount + 1

\* C20: a regeneration that passed the limit dispatches one request (count 1, the
\* topic, type and marks of the question it was called on); when its reply is
\* installed the question keeps its id and its place, the section keeps the number
\* and order of its questions, nothing else in the document changes, and the
\* question's regenerateCount is one more than it was before.
C20_RegenerationReplacesInPlace ==
  [][ \A r \in regens :
         RegenerationSucceeds(r) => ReplacedInPlace(r) /\ CounterIncremented(r) ]_vars


(***************************************************************************)
(* Claims about rejected and failed actions.                               *)
(***************************************************************************)
\* the step is a click that a guard of its handler turns away
RejectedStep ==
  \/ asmLog' # asmLog /\ asmLog'.result = "rejected"
  \/ regenLog' # regenLog /\ regenLog'.last = "rejected"
  \/ exportLog' # exportLog /\ exportLog'.last \in { "quota", "readonly" }

\* C21: a rejected action (an assembly with an empty blueprint or without credits,
\* a regeneration at the plan limit, an export past the allowance or in view-only
\* mode) dispatches no generation call and no write, and leaves the sections, the
\* blueprint, the credits (in the session and in the store), the regeneration
\* counters, the download counter and every stored document as they were.
C21_RejectionChangesNothing ==
  [][ RejectedStep =>
        UNCHANGED << sections, blueprint, userProfile, users, papers,
                     internalExistingPaper, asm, loadingAI, regens, images,
                     saves, exports >> ]_vars

\* the three guards have each turned a click away: the assembler for want of
\* credits, the regeneration at the limit, the export at the allowance
C21_Witness ==
  /\ asmLog.result = "rejected" /\ Len(blueprint) > 0
  /\ regenLog.last = "rejected"
  /\ exportLog.last = "quota"


\* the step ends an invocation whose request failed or brought no question
RegenerationFailsIn(r) ==
  /\ r \in regens /\ \A x \in regens' : x.rid # r.rid
  /\ regenLog'.last \in { "failed", "silent" }

\* C22: when the request of a regeneration fails or brings no usable question, the
\* target question and the rest of the document are as they were, the user is
\* told by a message, and no request is dispatched in its place.
C22_FailedRegenerationRollsBack ==
  [][ \A r \in regens :
         RegenerationFailsIn(r) =>
           /\ sections' = sections
           /\ regens' = regens \ { r }
           /\ regenLog'.count = regenLog.count
           /\ regenLog'.last = "failed" ]_vars


(***************************************************************************)
(* Claims about credits and subscriptions.                                 *)
(***************************************************************************)
\* the step in which the assembly of this session writes its deduction
DeductionWritten == asm.pc = "deduct" /\ AssemblyCommits

\* C23: the deduction of a successful assembly lowers the credits of the stored
\* user by one relative to what the store holds at that moment, and leaves the
\* stored plan, status and expiry as they are, also when a payment approval was
\* applied to the user after this session loaded its profile.
C23_DeductionKeepsWhatWasGranted ==
  [][ DeductionWritten =>
        users'[userEmail] = [ users[userEmail] EXCEPT !.credits = @ - 1 ] ]_vars


(***************************************************************************)
(* Claims about the regeneration counter.                                  *)
(***************************************************************************)
\* the counters of the document, by section id and question id
CountOf(secs) ==
  UNION { { << s.id, q.id, q.regenerateCount >> : q \in Range(s.questions) } :
            s \in Range(secs) }

\* the step applies a regeneration result to the question (sid, qid)
AppliesResultTo(sid, qid) ==
  \E r \in regens : /\ r.pc = "gen" /\ \A x \in regens' : x.rid # r.rid
                    /\ regenLog'.last = "replaced"
                    /\ r.sectionId = sid /\ r.question.id = qid

\* C24: a question's regenerateCount counts the regeneration results applied to
\* it: a step that applies a result leaves the counter one above the counter the
\* document held, and any other step leaves the counter of every question that
\* stays in the document as it was (never lowered, never reset).
C24_CounterCountsAppliedResults ==
  [][ \A c \in CountOf(sections) : \A d \in CountOf(sections') :
        (c[1] = d[1] /\ c[2] = d[2]) =>
           d[3] = IF AppliesResultTo(c[1], c[2]) THEN c[3] + 1 ELSE c[3] ]_vars


(***************************************************************************)
(* Claims about marks under regeneration.                                  *)
(***************************************************************************)
\* the totalMarks of the sections, in order
SectionTotals(secs) == [ i \in 1..Len(secs) |-> secs[i].totalMarks ]

\* the step settles invocation r with a reply (installed or not)
RegenerationAnswered(r) ==
  r \in regens /\ r.pc = "gen" /\ (\A x \in regens' : x.rid # r.rid)
    /\ regenLog'.last \in { "replaced", "silent" }

\* C25: a regeneration never changes a section's totalMarks, and the question it
\* replaces comes back with the marks the question had when the regeneration was
\* requested.
C25_RegenerationKeepsMarks ==
  [][ \A r \in regens : RegenerationAnswered(r) =>
        /\ SectionTotals(sections') = SectionTotals(sections)
        /\ \A s \in Range(sections') : \A q \in Range(s.questions) :
             (s.id = r.sectionId /\ q.id = r.question.id /\ regenLog'.last = "replaced")
               => q.marks = r.question.marks ]_vars

\* a question has been regenerated: it carries a reply's text and a counter of 1
C25_Witness ==
  /\ regenLog.last = "replaced"
  /\ \E s \in Range(sections) : \E q \in Range(s.questions) :
       q.regenerateCount = 1 /\ q.text \in { "T2", "T3" } /\ q.marks = 125


(***************************************************************************)
(* Claims about results that arrive late.                                  *)
(***************************************************************************)
\* the question (sid, qid) is in the document
Present(sid, qid) ==
  \E s \in Range(sections) : s.id = sid /\ \E q \in Range(s.questions) : q.id = qid

\* the step changes at most the question (sid, qid): the same sections and the same
\* questions in the same places, every other question and every section field as
\* it was
OnlyQuestionChanged(sid, qid) ==
  /\ Len(sections') = Len(sections)
  /\ \A i \in 1..Len(sections) :
       /\ Len(sections'[i].questions) = Len(sections[i].questions)
       /\ [ sections'[i] EXCEPT !.questions = << >> ]
            = [ sections[i] EXCEPT !.questions = << >> ]
       /\ \A j \in 1..Len(sections[i].questions) :
            \/ sections[i].id = sid /\ sections[i].questions[j].id = qid
            \/ sections'[i].questions[j] = sections[i].questions[j]

\* the question (sid, qid) carries the reply after the step, under its own id
RegeneratedAt(sid, qid) ==
  \A i \in 1..Len(sections) : \A j \in 1..Len(sections[i].questions) :
    (sections[i].id = sid /\ sections[i].questions[j].id = qid) =>
       /\ sections'[i].questions[j].id = qid
       /\ sections'[i].questions[j].text = "T2"

ImageSetAt(sid, qid, url) ==
  \A i \in 1..Len(sections) : \A j \in 1..Len(sections[i].questions) :
    (sections[i].id = sid /\ sections[i].questions[j].id = qid) =>
       sections'[i].questions[j]
         = [ sections[i].questions[j] EXCEPT !.imageUrl = url, !.imageWidth = 50 ]

\* the step installs the reply of regeneration r / the image of request r
RegenerationResult(r) ==
  r \in regens /\ r.pc = "gen" /\ (\A x \in regens' : x.rid # r.rid)
    /\ regenLog'.last = "replaced"

ImageResult(r) ==
  r \in images /\ r.result.settled = "resolved" /\ (\A x \in images' : x.iid # r.iid)

\* C26: the result of a regeneration or image request changes the question it was
\* requested for and nothing else, whatever other requests are in flight and in
\* whatever order they complete; when that question or its section is no longer
\* in the document (deleted, or the section list replaced by a new assembly) the
\* section list stays as it is and nothing is added to it.
C26_LateResultTouchesOnlyItsTarget ==
  [][ /\ \A r \in regens : RegenerationResult(r) =>
           /\ OnlyQuestionChanged(r.sectionId, r.question.id)
           /\ RegeneratedAt(r.sectionId, r.question.id)
           /\ ~Present(r.sectionId, r.question.id) => sections' = sections
      /\ \A r \in images : ImageResult(r) =>
           /\ OnlyQuestionChanged(r.sectionId, r.qId)
           /\ ImageSetAt(r.sectionId, r.qId, r.result.url)
           /\ ~Present(r.sectionId, r.qId) => sections' = sections ]_vars

\* two requests for different questions were in flight together and both results
\* are in the document: one question regenerated, another with its image
C26_Witness ==
  /\ regens = { } /\ images = { }
  /\ \E q1, q2 \in QuestionsOf(sections) :
       /\ q1.id # q2.id
       /\ q1.text = "T2" /\ q1.regenerateCount = 1
       /\ q2.imageUrl = "data:image" /\ q2.regenerateCount = 0


(***************************************************************************)
(* Claims about credits and payment requests.                              *)
(***************************************************************************)
\* every copy of a user the program holds: the stored documents, the profile of
\* each generator session, the user of the App
UserCopies ==
  { users[e] : e \in DOMAIN users } \cup Range(userProfile) \cup Range(other.userProfile)
    \cup Range(app.user) \cup { w.user : w \in requests.writes }

\* C27: no user's credits are ever negative, in the store, in the profile of a
\* generator session or in a write on its way to the store, whatever the order of
\* registrations, assemblies of one or two sessions of the user, approvals and
\* rejections.
C27_CreditsNeverNegative ==
  \A u \in UserCopies : u.credits >= 0

\* both sessions of the user have assembled a paper, a request was decided, and
\* the stored credits are used up
C27_Witness ==
  /\ asmLog.result = "ok" /\ other.count >= 1 /\ other.pc = "idle"
  /\ requests.decisions >= 1
  /\ users[userEmail].credits = 0


\* the step is a call of processRequest
RequestProcessed == requests'.decisions = requests.decisions + 1

\* the user documents the step hands to updateUser
WritesScheduled == requests'.writes \ requests.writes

\* C28: a payment request takes effect at most once: processing a request that is
\* no longer PENDING writes nothing to the user (credits, plan, status and expiry
\* stay as they are), the approval of a PENDING request grants the plan and the
\* plan's papers, and a rejection never changes credits or plan.
C28_RequestTakesEffectOnce ==
  [][ RequestProcessed =>
        LET request  == Get(requests'.last).request
            approved == Get(requests'.last).approved
            user     == Get(requests'.last).user
        IN /\ request.status # "PENDING" => WritesScheduled = { }
           /\ \A w \in WritesScheduled :
                IF approved
                THEN /\ w.user.credits = Get(user).credits + PricedPapers
                     /\ w.user.plan = request.plan
                ELSE /\ w.user.credits = Get(user).credits
                     /\ w.user.plan = Get(user).plan ]_vars


(***************************************************************************)
(* Claims about completion.                                                *)
(***************************************************************************)
\* an invocation of handleGenerateFullPaper is between its start and its end
AssemblyRunning == asm.pc # "idle"

\* C29: when every dispatched call is eventually answered or fails, every
\* assembly that was started ends with loadingAI false and generationStatus
\* empty, and every regeneration and every image request that was started is
\* followed by a state in which no question is marked as regenerating, or as
\* generating its image.
C29_EveryRequestCompletes ==
  /\ AssemblyRunning ~> (~AssemblyRunning /\ ~loadingAI /\ generationStatus = "")
  /\ IsSome(regeneratingQuestionId) ~> (regeneratingQuestionId = None)
  /\ IsSome(generatingImageId) ~> (generatingImageId = None)

\* an assembly, a regeneration and an image request are running together
C29_Witness ==
  AssemblyRunning /\ loadingAI /\ regens # { } /\ images # { }
    /\ IsSome(regeneratingQuestionId) /\ IsSome(generatingImageId)


(***************************************************************************)
(* Claims about the session of the App.                                    *)
(***************************************************************************)
\* the step submits the login form / signs the user out
LoginSubmitted == app.user = None /\ IsSome(app'.submitted)
LoggedOut      == IsSome(app.user) /\ app'.submitted = None

\* C30: handleLogin sets the user only when a user record is stored under the
\* address entered (the admin's under the name 'admin') and the password
\* entered equals the stored password; after
\* every other submission, one with an empty password included, there is no
\* user; handleLogout always ends with no user.
C30_SessionOnlyWithThePassword ==
  [][ /\ LoginSubmitted =>
           (IsSome(app'.user) <=>
              \E e \in DOMAIN users' :
                 /\ \/ e = Get(app'.submitted).loginEmail
                    \/ e = AdminEmail /\ Get(app'.submitted).loginEmail = "admin"
                 /\ users'[e].password = Get(app'.submitted).loginPassword
                 /\ app'.user = Some(users'[e]))
      /\ LoggedOut => app'.user = None ]_vars

====
